---- MODULE Spec2Model ----
(***************************************************************************)
(* Smart Trendz (kasare91/smart-trendz): the branch-scoped REST handlers   *)
(* for customers, orders, payments and activity logs, and the pure branch  *)
(* policy functions of lib/branch.                                         *)
(*                                                                         *)
(* Money is modelled in integer minor units.  A request's `amount` is the  *)
(* JSON value the client sent: the handlers compare it with JavaScript's   *)
(* numeric coercion (Number) but store parseFloat(amount); both            *)
(* conversions are modelled.                                               *)
(***************************************************************************)
EXTENDS Integers, Sequences, FiniteSets, TLC

VARIABLES
    customers,      \* prisma.customer : id -> [branchId, fullName]
    orders,         \* prisma.order    : id -> [customerId, branchId, totalAmount, orderNumber, dueDate]
    payments,       \* prisma.payment  : sequence of [orderId, amount]
    activityLogs,   \* prisma.activityLog : sequence of audit entries
    last,           \* the most recent request and its HTTP response
    inflight,       \* POST /api/payments requests suspended at an await
    screen,         \* the part of the application the behaviour writes through
    users,          \* prisma.user : id -> [role, branchId, email, active]
    issued,         \* history: the numbers of the initial orders, then every
                    \* number issued since, in order of issue
    localStorage,   \* the browser's localStorage : key -> stored text
    sync,           \* the position of syncPendingActions and what it did
    uuids           \* the number of crypto.randomUUID() calls so far

vars == <<customers, orders, payments, activityLogs, last, inflight, screen, users, issued,
          localStorage, sync, uuids>>

----------------------------------------------------------------------------
(* Bounds *)

MaxAmount   == 2    \* largest amount a payment request may carry
MaxPayments == 3    \* rows the payment table holds
MaxLogs     == 1    \* rows the activity-log table accepts
MaxDays     == 7    \* a due date lies at most this many days before or after today
MaxIssued   == 4    \* order numbers issued in a behaviour, the seeded ones included
MaxActions  == 3    \* offline actions saved in a behaviour

----------------------------------------------------------------------------
(* Values *)

NULL == "null"

Branches    == {"B1", "B2"}
CustomerIdSeq == <<"c1", "c2", "c3">>
OrderIdSeq    == <<"o1", "o2", "o3">>
CustomerIds == {CustomerIdSeq[i] : i \in DOMAIN CustomerIdSeq}
OrderIds    == {OrderIdSeq[i] : i \in DOMAIN OrderIdSeq}
GhostId     == "zz"             \* an id no record ever has
Names       == {"Ama", "Kofi"}
Slots       == {"r1", "r2"}    \* concurrent POST /api/payments requests

Roles == {"ADMIN", "STAFF", "VIEWER"}

\* The user descriptor the session carries (SessionUser of lib/branch).
SessionUsers ==
    { [id |-> "admin",   role |-> "ADMIN",  branchId |-> NULL],
      [id |-> "staff1",  role |-> "STAFF",  branchId |-> "B1"],
      [id |-> "viewer1", role |-> "VIEWER", branchId |-> "B1"] }

\* A JSON `amount`: absent, a number or clean numeral ("2", 2), or a string
\* with a numeric prefix followed by other characters ("2abc").
MissingAmount == [kind |-> "missing", v |-> 0]
AmountInputs ==
    {MissingAmount} \cup [kind : {"numeric", "prefixed"}, v : (-1)..MaxAmount]

\* !amount
Falsy(a) == a.kind = "missing" \/ (a.kind = "numeric" /\ a.v = 0)
\* Number(amount) is NaN for a string that is not wholly a numeral, and every
\* comparison with NaN is false.
IsNaN(a) == a.kind # "numeric"
NumLeq(a, n) == ~IsNaN(a) /\ a.v <= n
NumGt(a, n)  == ~IsNaN(a) /\ a.v > n
\* parseFloat(amount) reads the longest numeric prefix.
ParseFloat(a) == a.v

----------------------------------------------------------------------------
(* lib/auth (not part of the sources at hand) *)

\* requireAuth(): the session's user descriptor.
RequireAuth(u) == u

----------------------------------------------------------------------------
(* lib/branch *)

\* resolveBranchId, had it honoured the body's branchId for every role.
resolveBranchIdFromBody(sessionUser, bodyBranchId) ==
    IF bodyBranchId # NULL THEN bodyBranchId ELSE sessionUser.branchId

\* bodyBranchId ?? sessionUser?.branchId ?? null: only null and undefined
\* (NULL) fall through, an empty string does not.
resolveBranchId(sessionUser, bodyBranchId) ==
    IF sessionUser.role = "ADMIN"
    THEN IF bodyBranchId # NULL THEN bodyBranchId ELSE sessionUser.branchId
    ELSE sessionUser.branchId

\* hasAccessToBranch, had it taken a user without a branch for unrestricted.
hasAccessToBranchUnassigned(sessionUser, targetBranchId) ==
    \/ sessionUser.role = "ADMIN"
    \/ sessionUser.branchId = NULL
    \/ sessionUser.branchId = targetBranchId

hasAccessToBranch(sessionUser, targetBranchId) ==
    IF sessionUser.role = "ADMIN" THEN TRUE
    ELSE sessionUser.branchId = targetBranchId

\* buildBranchFilter, had it built { branchId: sessionUser.branchId } without
\* the check: Prisma takes an undefined branchId for no restriction.
buildBranchFilterUnchecked(sessionUser) ==
    IF sessionUser.role = "ADMIN" \/ sessionUser.branchId = NULL
    THEN [throws |-> FALSE, branches |-> Branches \cup {NULL}]
    ELSE [throws |-> FALSE, branches |-> {sessionUser.branchId}]

\* The filter is the set of branch ids it lets through; "throw" when the
\* non-admin has no branch.
buildBranchFilter(sessionUser) ==
    IF sessionUser.role = "ADMIN" THEN [throws |-> FALSE, branches |-> Branches \cup {NULL}]
    ELSE IF sessionUser.branchId = NULL THEN [throws |-> TRUE, branches |-> {}]
    ELSE [throws |-> FALSE, branches |-> {sessionUser.branchId}]

----------------------------------------------------------------------------
(* Helpers over the tables *)

RECURSIVE SumAmounts(_)
SumAmounts(ps) ==
    IF ps = <<>> THEN 0 ELSE Head(ps).amount + SumAmounts(Tail(ps))

\* order.payments of an `include: { payments: true }`
PaymentsOf(ps, oid) == SelectSeq(ps, LAMBDA p : p.orderId = oid)

AmountPaid(ps, oid) == SumAmounts(PaymentsOf(ps, oid))

\* The id the database gives a new row: the first one not yet in use.
NewId(idSeq, used) ==
    idSeq[CHOOSE i \in DOMAIN idSeq :
            /\ idSeq[i] \notin used
            /\ \A j \in 1..(i - 1) : idSeq[j] \in used]

Resp(op, u, req, status, error, returned, calls) ==
    [op |-> op, user |-> u, req |-> req, status |-> status, error |-> error,
     returned |-> returned, calls |-> calls, audit |-> {}, sms |-> "none"]

\* A record as it appears in a response body.
View(entity, id, branchId) == [entity |-> entity, id |-> id, branchId |-> branchId]

----------------------------------------------------------------------------
(* lib/activity-log: logActivity *)

LogEntry(u, branchId, action, entity, entityId) ==
    [userId |-> u.id, branchId |-> branchId, action |-> action,
     entity |-> entity, entityId |-> entityId]

\* prisma.activityLog.create either stores the row or throws; the throw is
\* caught and only printed.  The storage accepts at most MaxLogs rows.
logActivity(entry) ==
    \/ /\ Len(activityLogs) < MaxLogs
       /\ activityLogs' = Append(activityLogs, entry)
    \/ activityLogs' = activityLogs

\* `await logActivity(...)` followed by the handler's response, had
\* logActivity no try/catch: the throw reaches the handler's catch block.
LogThenRespondUncaught(entry, resp) ==
    \/ /\ Len(activityLogs) < MaxLogs
       /\ activityLogs' = Append(activityLogs, entry)
       /\ last' = [resp EXCEPT !.audit = {entry}]
    \/ /\ activityLogs' = activityLogs
       /\ last' = [resp EXCEPT !.status = 500, !.error = "Failed",
                               !.returned = {}, !.audit = {entry}]

\* `await logActivity(...)` followed by the handler's response.  The
\* response keeps, as `audit`, the entries the handler asked to be written.
LogThenRespond(entry, resp) ==
    /\ logActivity(entry)
    /\ last' = [resp EXCEPT !.audit = {entry}]

----------------------------------------------------------------------------
(* lib/utils: due dates.  A Date is a day number and an hour of that day.  *)

Hours == {0, 9, 23}
Dates == [day : 0..(2 * MaxDays), hour : Hours]

\* A body without a dueDate.
MissingDate == [day |-> -1, hour |-> 0]

\* date.setHours(0, 0, 0, 0)
StartOfDay(date) == [day |-> date.day, hour |-> 0]

\* date-fns differenceInDays(left, right): the number of full days between
\* the two, rounded towards zero.
differenceInDays(left, right) ==
    LET h == 24 * (left.day - right.day) + (left.hour - right.hour)
    IN  IF h >= 0 THEN h \div 24 ELSE -((-h) \div 24)

\* calculateDaysToDue(dueDate), `now` being new Date()
calculateDaysToDue(dueDate, now) ==
    differenceInDays(StartOfDay(dueDate), StartOfDay(now))

Urgencies == {"safe", "warning-5", "warning-3", "warning-1", "overdue"}

\* The tier of a number of days, with the bounds taken exclusive.
UrgencyOfDaysExclusive(days) ==
    IF days < 0 THEN "overdue"
    ELSE IF days < 1 THEN "warning-1"
    ELSE IF days < 3 THEN "warning-3"
    ELSE IF days < 5 THEN "warning-5"
    ELSE "safe"

\* The cascade of getDueDateUrgency on the days computed.
UrgencyOfDays(days) ==
    IF days <= 0 THEN "overdue"
    ELSE IF days <= 1 THEN "warning-1"
    ELSE IF days <= 3 THEN "warning-3"
    ELSE IF days <= 5 THEN "warning-5"
    ELSE "safe"

getDueDateUrgency(dueDate, now) == UrgencyOfDays(calculateDaysToDue(dueDate, now))

Abs(n) == IF n < 0 THEN -n ELSE n

\* A label is its wording and the number printed in it (0 when none is).
Label(text, n) == [text |-> text, n |-> n]

\* getUrgencyLabel, had 'Due Tomorrow' been tested first.
getUrgencyLabelTomorrowFirst(urgency, days) ==
    IF days = 1 THEN Label("Due Tomorrow", 0)
    ELSE IF urgency = "overdue"
    THEN IF days = 0 THEN Label("Due Today", 0)
         ELSE Label("days overdue", Abs(days))
    ELSE Label("days left", days)

getUrgencyLabel(urgency, days) ==
    IF urgency = "overdue"
    THEN IF days = 0 THEN Label("Due Today", 0)
         ELSE Label("days overdue", Abs(days))
    ELSE IF days = 1 THEN Label("Due Tomorrow", 0)
    ELSE Label("days left", days)

----------------------------------------------------------------------------
(* lib/utils: generateOrderNumber.  The string T-<year>-<digits> is kept   *)
(* as [year, digits], digits being the characters after the second dash.   *)

\* The year new Date().getFullYear() gives while the orders are taken.
CurrentYear == 2025

\* padStart(4, '0')
PadWidth == 4

\* Stands for null: no order yet.
NoOrderNumber == [year |-> 0, digits |-> <<>>]

RECURSIVE NumberToString(_)
\* n.toString() for n >= 0, as decimal digits.
NumberToString(n) ==
    IF n < 10 THEN <<n>> ELSE Append(NumberToString(n \div 10), n % 10)

RECURSIVE parseInt(_)
\* parseInt of a string of decimal digits.
parseInt(digits) ==
    IF Len(digits) = 1 THEN digits[1]
    ELSE 10 * parseInt(SubSeq(digits, 1, Len(digits) - 1)) + digits[Len(digits)]

\* digits.padStart(width, '0')
padStart(digits, width) ==
    IF Len(digits) >= width THEN digits
    ELSE [i \in 1..width |->
            IF i <= width - Len(digits) THEN 0
            ELSE digits[i - (width - Len(digits))]]

\* The order number T-<year>-<n padded to four digits>.
OrderNumber(year, n) == [year |-> year, digits |-> padStart(NumberToString(n), PadWidth)]

\* Variant of generateOrderNumber that continues the sequence of any year.
generateOrderNumberAnyYear(lastOrderNumber, year) ==
    IF lastOrderNumber = NoOrderNumber
    THEN [year |-> year, digits |-> padStart(<<1>>, PadWidth)]
    ELSE [year |-> year,
          digits |-> padStart(NumberToString(parseInt(lastOrderNumber.digits) + 1),
                              PadWidth)]

\* generateOrderNumber(lastOrderNumber), year being the clock's current year.
generateOrderNumber(lastOrderNumber, year) ==
    IF lastOrderNumber = NoOrderNumber \/ lastOrderNumber.year # year
    THEN [year |-> year, digits |-> <<0, 0, 0, 1>>]
    ELSE LET lastNumber == parseInt(lastOrderNumber.digits)
             nextNumber == padStart(NumberToString(lastNumber + 1), PadWidth)
         IN  [year |-> year, digits |-> nextNumber]

\* Comparison of two digit strings character by character, as the database
\* orders text.
LexLess(a, b) ==
    \E i \in 1..Len(b) :
        /\ \A j \in 1..(i - 1) : j <= Len(a) /\ a[j] = b[j]
        /\ i > Len(a) \/ a[i] < b[i]

\* a sorts before b as a string.
OrderNumberLess(a, b) ==
    a.year < b.year \/ (a.year = b.year /\ LexLess(a.digits, b.digits))

\* prisma.order.findFirst({ orderBy: { orderNumber: 'desc' } }), then
\* lastOrder?.orderNumber || null
LastOrderNumber(table) ==
    IF DOMAIN table = {} THEN NoOrderNumber
    ELSE LET nums == {table[o].orderNumber : o \in DOMAIN table}
         IN  CHOOSE n \in nums : \A m \in nums : m = n \/ OrderNumberLess(m, n)

----------------------------------------------------------------------------
(* Offline storage: actions made while offline wait in localStorage, one    *)
(* queue per storage key, until syncPendingActions sends them.              *)

\* STORAGE_KEYS, in the order syncPendingActions goes through them.
STORAGE_KEYS ==
    <<"smart-trendz-pending-orders", "smart-trendz-pending-payments",
      "smart-trendz-pending-customers">>

StorageKeys == {STORAGE_KEYS[j] : j \in 1..Len(STORAGE_KEYS)}

\* What localStorage holds under a key: nothing (getItem gives null), or the
\* JSON text of an array of pending items.
NoItem == [present |-> FALSE, items |-> <<>>]
EmptyStorage == [k \in StorageKeys |-> NoItem]

\* localStorage.setItem(storageKey, JSON.stringify(items))
setItem(store, storageKey, items) ==
    [store EXCEPT ![storageKey] = [present |-> TRUE, items |-> items]]

\* getPendingActions(storageKey): data ? JSON.parse(data) : []
getPendingActions(store, storageKey) ==
    IF store[storageKey].present THEN store[storageKey].items ELSE <<>>

\* savePendingAction(storageKey, ...): the item gets a fresh id.
savePendingAction(store, storageKey, id) ==
    setItem(store, storageKey,
            Append(getPendingActions(store, storageKey), [id |-> id]))

\* removePendingAction, had it filtered the list syncPendingActions read at
\* the start of its loop instead of reading the storage again.
removePendingActionStale(store, storageKey, id) ==
    setItem(store, storageKey, SelectSeq(sync.snapshot, LAMBDA item : item.id # id))

\* removePendingAction(storageKey, id)
removePendingAction(store, storageKey, id) ==
    setItem(store, storageKey,
            SelectSeq(getPendingActions(store, storageKey), LAMBDA item : item.id # id))

\* What a fetch comes to: a 2xx response, another response, or a throw.
FetchOutcomes == {"ok", "not ok", "throws"}

\* `if (response.ok)`, had the branch been taken for every response.
responseAlwaysOk(outcome) == outcome # "throws"

\* `if (response.ok)` inside the try block
responseOk(outcome) == outcome = "ok"

\* No sync is running.  sent, ok, failed and added are history of the run:
\* the ids sent, those the server answered OK, those whose request failed,
\* those saved while the run was suspended; everOk is the ids the server has
\* answered OK in any run.
SyncIdle ==
    [pc |-> "idle", online |-> TRUE, key |-> 0, snapshot |-> <<>>, i |-> 0,
     syncedCount |-> 0, errors |-> <<>>, success |-> FALSE,
     sent |-> {}, ok |-> {}, failed |-> {}, added |-> {}, everOk |-> {}]

\* From the end of one loop to the next await: the first queue from the
\* k-th on that has pending items is read and its first item sent; with no
\* such queue the function returns.
NextFetch(s, k, store) ==
    LET ks == {j \in k..Len(STORAGE_KEYS) :
                  getPendingActions(store, STORAGE_KEYS[j]) # <<>>}
    IN  IF ks = {}
        THEN [s EXCEPT !.pc = "done", !.key = 0, !.snapshot = <<>>, !.i = 0,
                       !.success = (s.errors = <<>>)]
        ELSE LET j == CHOOSE x \in ks : \A y \in ks : x <= y
                 pending == getPendingActions(store, STORAGE_KEYS[j])
             IN  [s EXCEPT !.pc = "fetch", !.key = j, !.snapshot = pending,
                           !.i = 1, !.sent = @ \cup {pending[1].id}]

----------------------------------------------------------------------------
(* Initial database: the seeded shop after the multi-branch migration, one *)
(* customer and one order in each branch, the first order partly paid.     *)

SeedCustomers ==
    [c \in {"c1", "c2"} |->
        [branchId |-> IF c = "c1" THEN "B1" ELSE "B2", fullName |-> "Ama"]]

SeedOrders ==
    [o \in {"o1", "o2"} |->
        IF o = "o1"
        THEN [customerId |-> "c1", branchId |-> "B1", totalAmount |-> 2,
              orderNumber |-> OrderNumber(CurrentYear, 1), dueDate |-> [day |-> MaxDays + 3, hour |-> 0]]
        ELSE [customerId |-> "c2", branchId |-> "B2", totalAmount |-> 2,
              orderNumber |-> OrderNumber(CurrentYear, 2), dueDate |-> [day |-> 2 * MaxDays, hour |-> 0]]]

SeedPayments == << [orderId |-> "o1", amount |-> 1] >>

\* The user table behind the sessions.
SeedUsers ==
    [u \in {s.id : s \in SessionUsers} |->
        LET s == CHOOSE x \in SessionUsers : x.id = u
        IN  [role |-> s.role, branchId |-> s.branchId, email |-> u, active |-> TRUE]]

\* The numbers the seeded orders were given.
SeedIssued == <<OrderNumber(CurrentYear, 1), OrderNumber(CurrentYear, 2)>>

Idle == [pc |-> "idle"]

\* The application's screens; each writes through its own routes and reads
\* through all of them.
Screens == {"customers", "orders", "payments"}

NoRequest == Resp("none", NULL, NULL, 0, NULL, {}, <<>>)

Init ==
    /\ customers = SeedCustomers
    /\ orders = SeedOrders
    /\ payments = SeedPayments
    /\ activityLogs = <<>>
    /\ last = NoRequest
    /\ inflight = [s \in Slots |-> Idle]
    /\ screen \in Screens
    /\ users = SeedUsers
    /\ issued = SeedIssued
    /\ localStorage = EmptyStorage
    /\ sync = SyncIdle
    /\ uuids = 0

----------------------------------------------------------------------------
(* Response bodies *)

\* The id of the i-th row of the payment table.
PaymentId(i) == ToString(i)

CustomerView(c) == View("customer", c, customers[c].branchId)
OrderView(o)    == View("order", o, orders[o].branchId)
\* A payment is returned with its order and the order's branch included.
PaymentView(i)  == View("payment", PaymentId(i), orders[payments[i].orderId].branchId)

PaymentIdsOf(oid) == {i \in 1..Len(payments) : payments[i].orderId = oid}

----------------------------------------------------------------------------
(* /api/customers *)

\* GET /api/customers
GetCustomers(u) ==
    LET user == RequireAuth(u)
        where == buildBranchFilter(user)
    IN  /\ last' = IF where.throws
                   THEN Resp("GET /api/customers", user, NULL, 500,
                             "User not assigned to a branch", {}, <<>>)
                   ELSE Resp("GET /api/customers", user, NULL, 200, NULL,
                             {CustomerView(c) : c \in
                                 {d \in DOMAIN customers :
                                     customers[d].branchId \in where.branches}},
                             <<"customer.findMany">>)
        /\ UNCHANGED <<customers, orders, payments, activityLogs, inflight, screen, users, issued, localStorage, sync, uuids>>

\* POST /api/customers; body = [fullName, branchId]
PostCustomer(u, body) ==
    LET user == RequireAuth(u)
        op == "POST /api/customers"
        branchId == resolveBranchId(user, body.branchId)
    IN  IF body.fullName = NULL
        THEN /\ last' = Resp(op, user, NULL, 400,
                             "Full name and phone number are required", {}, <<>>)
             /\ UNCHANGED <<customers, orders, payments, activityLogs, inflight, screen, users, issued, localStorage, sync, uuids>>
        ELSE IF branchId \in {NULL, ""}
        THEN /\ last' = Resp(op, user, NULL, 400,
                             IF user.role = "ADMIN"
                             THEN "Admin must specify a branch for the customer"
                             ELSE "User not assigned to a branch", {}, <<>>)
             /\ UNCHANGED <<customers, orders, payments, activityLogs, inflight, screen, users, issued, localStorage, sync, uuids>>
        ELSE IF branchId \notin Branches
        THEN /\ last' = Resp(op, user, NULL, 404, "Branch not found", {},
                             <<"branch.findUnique">>)
             /\ UNCHANGED <<customers, orders, payments, activityLogs, inflight, screen, users, issued, localStorage, sync, uuids>>
        ELSE /\ DOMAIN customers # CustomerIds
             /\ LET id == NewId(CustomerIdSeq, DOMAIN customers)
                IN  /\ customers' = [c \in DOMAIN customers \cup {id} |->
                            IF c = id
                            THEN [branchId |-> branchId, fullName |-> body.fullName]
                            ELSE customers[c]]
                    /\ LogThenRespond(LogEntry(user, branchId, "CREATE", "CUSTOMER", id),
                           Resp(op, user, NULL, 201, NULL,
                                    {View("customer", id, branchId)},
                                    <<"branch.findUnique", "customer.create",
                                      "activityLog.create">>))
             /\ UNCHANGED <<orders, payments, inflight, screen, users, issued, localStorage, sync, uuids>>

\* The lookup every /api/customers/[id] handler starts with: the
\* <<status, error>> of its rejection, or <<200, NULL>>.
CustomerAccess(user, id) ==
    IF id \notin DOMAIN customers THEN <<404, "Customer not found">>
    ELSE IF user.role # "ADMIN" /\ customers[id].branchId # user.branchId
    THEN <<403, "Customer not found">>
    ELSE <<200, NULL>>

\* GET /api/customers/[id]
GetCustomerResponse(u, id) ==
    LET user == RequireAuth(u)
        op == "GET /api/customers/[id]"
        access == CustomerAccess(user, id)
    IN  IF access[1] # 200
        THEN Resp(op, user, id, access[1], access[2], {}, <<"customer.findUnique">>)
        ELSE Resp(op, user, id, 200, NULL,
                  {CustomerView(id)}
                    \cup {OrderView(o) : o \in
                            {x \in DOMAIN orders : orders[x].customerId = id}}
                    \cup {PaymentView(i) : i \in
                            {j \in 1..Len(payments) :
                                orders[payments[j].orderId].customerId = id}},
                  <<"customer.findUnique">>)

GetCustomer(u, id) ==
    /\ last' = GetCustomerResponse(u, id)
    /\ UNCHANGED <<customers, orders, payments, activityLogs, inflight, screen, users, issued, localStorage, sync, uuids>>

\* PATCH /api/customers/[id]; body = [fullName, branchId]
PatchCustomer(u, id, body) ==
    LET user == RequireAuth(u)
        op == "PATCH /api/customers/[id]"
        access == CustomerAccess(user, id)
    IN  IF access[1] # 200
        THEN /\ last' = Resp(op, user, id, access[1], access[2], {},
                             <<"customer.findUnique">>)
             /\ UNCHANGED <<customers, orders, payments, activityLogs, inflight, screen, users, issued, localStorage, sync, uuids>>
        ELSE /\ customers' = IF body.fullName # NULL
                             THEN [customers EXCEPT ![id].fullName = body.fullName]
                             ELSE customers
             /\ LET resp == Resp(op, user, id, 200, NULL, {CustomerView(id)},
                                 <<"customer.findUnique", "customer.update">>)
                IN  IF body.fullName # NULL /\ body.fullName # customers[id].fullName
                    THEN LogThenRespond(LogEntry(user, customers[id].branchId,
                                                 "UPDATE", "CUSTOMER", id), resp)
                    ELSE UNCHANGED activityLogs /\ last' = resp
             /\ UNCHANGED <<orders, payments, inflight, screen, users, issued, localStorage, sync, uuids>>

----------------------------------------------------------------------------
(* lib/auth (not part of the sources at hand): requireRole *)

\* requireRole(roles) lets the session's user through when its role is one
\* of `roles`, and throws 'Forbidden: Insufficient permissions' otherwise.
RequireRole(u, roles) == u.role \in roles

----------------------------------------------------------------------------
(* DELETE /api/customers/[id] *)

\* The orders that do not belong to customer `cid` (onDelete: Cascade).
WithoutOrdersOf(table, cid) ==
    [o \in {x \in DOMAIN table : table[x].customerId # cid} |-> table[o]]

\* DELETE /api/customers/[id]: the customer goes, with its orders and their
\* payments.
DeleteCustomer(u, id) ==
    LET op == "DELETE /api/customers/[id]"
    IN  IF ~RequireRole(u, {"ADMIN"})
        THEN /\ last' = Resp(op, u, id, 500, "Forbidden: Insufficient permissions",
                             {}, <<>>)
             /\ UNCHANGED <<customers, orders, payments, activityLogs, inflight, screen, users, issued, localStorage, sync, uuids>>
        ELSE IF id \notin DOMAIN customers
        THEN /\ last' = Resp(op, u, id, 404, "Customer not found", {},
                             <<"customer.findUnique">>)
             /\ UNCHANGED <<customers, orders, payments, activityLogs, inflight, screen, users, issued, localStorage, sync, uuids>>
        ELSE /\ customers' = [c \in DOMAIN customers \ {id} |-> customers[c]]
             /\ orders' = WithoutOrdersOf(orders, id)
             /\ payments' = SelectSeq(payments,
                               LAMBDA p : orders[p.orderId].customerId # id)
             /\ LogThenRespond(LogEntry(u, customers[id].branchId,
                                        "DELETE", "CUSTOMER", id),
                    Resp(op, u, id, 200, NULL, {},
                         <<"customer.findUnique", "customer.delete">>))
             /\ UNCHANGED <<inflight, screen, users, issued, localStorage, sync, uuids>>

----------------------------------------------------------------------------
(* /api/orders *)

\* GET /api/orders
GetOrders(u) ==
    LET user == RequireAuth(u)
        op == "GET /api/orders"
    IN  /\ last' = IF user.role # "ADMIN" /\ user.branchId = NULL
                   THEN Resp(op, user, NULL, 400, "User not assigned to a branch",
                             {}, <<>>)
                   ELSE Resp(op, user, NULL, 200, NULL,
                             {OrderView(o) : o \in
                                 {x \in DOMAIN orders :
                                     user.role = "ADMIN"
                                       \/ orders[x].branchId = user.branchId}},
                             <<"order.findMany">>)
        /\ UNCHANGED <<customers, orders, payments, activityLogs, inflight, screen, users, issued, localStorage, sync, uuids>>

\* The checks of POST /api/orders before it numbers the order:
\* <<status, error, calls>>, status 201 when they pass.
OrderChecks(user, body) ==
    IF body.customerId = NULL \/ Falsy(body.totalAmount) \/ body.dueDate = MissingDate
    THEN <<400, "Missing required fields", <<>>>>
    ELSE IF body.customerId \notin DOMAIN customers
    THEN <<404, "Customer not found", <<"customer.findUnique">>>>
    ELSE IF user.role # "ADMIN"
              /\ customers[body.customerId].branchId # user.branchId
    THEN <<403, "Customer not found in your branch", <<"customer.findUnique">>>>
    ELSE <<201, NULL, <<"customer.findUnique">>>>

\* Variant of OrderBranchId that takes the branch an ADMIN asks for.
OrderBranchIdRequested(user, body) ==
    IF user.role = "ADMIN" /\ body.branchId # NULL
    THEN body.branchId
    ELSE customers[body.customerId].branchId

\* branchId: customer.branchId, // Inherit from customer
OrderBranchId(user, body) == customers[body.customerId].branchId

\* The unique index on Order.orderNumber (the schema is not part of the
\* sources at hand): an insert with a number some row holds is refused.
OrderNumberTaken(table, orderNumber) ==
    \E o \in DOMAIN table : table[o].orderNumber = orderNumber

\* POST /api/orders from prisma.order.create to the response.  At most
\* MaxIssued numbers are issued in a behaviour.  The response to a created
\* order keeps, as its request, the branchId the body carried.
CreateOrder(user, body, orderNumber) ==
    LET op == "POST /api/orders"
        withPayment == NumGt(body.initialPayment, 0)
    IN  IF OrderNumberTaken(orders, orderNumber)
        THEN /\ last' = Resp(op, user, NULL, 500, "Unique constraint failed", {},
                             <<"customer.findUnique", "order.findFirst",
                               "order.create">>)
             /\ UNCHANGED <<orders, payments, activityLogs, issued, localStorage, sync, uuids>>
        ELSE /\ DOMAIN orders # OrderIds
             /\ Len(issued) < MaxIssued
             /\ withPayment => Len(payments) < MaxPayments
             /\ LET id == NewId(OrderIdSeq, DOMAIN orders)
                    branchId == OrderBranchId(user, body)
                IN  /\ orders' = [o \in DOMAIN orders \cup {id} |->
                            IF o = id
                            THEN [customerId |-> body.customerId,
                                  branchId |-> branchId,
                                  totalAmount |-> ParseFloat(body.totalAmount),
                                  dueDate |-> body.dueDate,
                                  orderNumber |-> orderNumber]
                            ELSE orders[o]]
                    /\ payments' = IF withPayment
                                   THEN Append(payments,
                                          [orderId |-> id,
                                           amount |-> ParseFloat(body.initialPayment)])
                                   ELSE payments
                    /\ issued' = Append(issued, orderNumber)
                    /\ LogThenRespond(LogEntry(user, branchId, "CREATE", "ORDER", id),
                           Resp(op, user, body.branchId, 201, NULL,
                                    {View("order", id, branchId)},
                                    <<"customer.findUnique", "order.findFirst",
                                      "order.create", "activityLog.create">>))

\* POST /api/orders; body = [customerId, branchId, totalAmount, dueDate,
\* initialPayment]
PostOrder(u, body) ==
    LET user == RequireAuth(u)
        check == OrderChecks(user, body)
    IN  IF check[1] # 201
        THEN /\ last' = Resp("POST /api/orders", user, NULL, check[1], check[2], {},
                             check[3])
             /\ UNCHANGED <<customers, orders, payments, activityLogs, inflight, screen, users, issued, localStorage, sync, uuids>>
        ELSE /\ CreateOrder(user, body,
                            generateOrderNumber(LastOrderNumber(orders), CurrentYear))
             /\ UNCHANGED <<customers, inflight, screen, users, localStorage, sync, uuids>>

\* POST /api/orders up to `await prisma.order.create`: the checks, the read
\* of the last order number and the new number made from it.
PostOrderFind(s, u, body) ==
    LET user == RequireAuth(u)
        check == OrderChecks(user, body)
    IN  /\ inflight[s].pc = "idle"
        /\ IF check[1] # 201
           THEN /\ last' = Resp("POST /api/orders", user, NULL, check[1], check[2],
                                {}, check[3])
                /\ UNCHANGED inflight
           ELSE /\ inflight' = [inflight EXCEPT ![s] =
                        [pc |-> "create order", user |-> user, body |-> body,
                         orderNumber |->
                            generateOrderNumber(LastOrderNumber(orders), CurrentYear)]]
                /\ UNCHANGED last
        /\ UNCHANGED <<customers, orders, payments, activityLogs, screen, users, issued, localStorage, sync, uuids>>

\* ... and from the insert to the response.
PostOrderCreate(s) ==
    /\ inflight[s].pc = "create order"
    /\ CreateOrder(inflight[s].user, inflight[s].body, inflight[s].orderNumber)
    /\ inflight' = [inflight EXCEPT ![s] = Idle]
    /\ UNCHANGED <<customers, screen, users, localStorage, sync, uuids>>

\* The rows of `ps` that do not belong to order `oid` (onDelete: Cascade).
WithoutPaymentsOf(ps, oid) == SelectSeq(ps, LAMBDA p : p.orderId # oid)

\* requireRole(['ADMIN', 'STAFF']), had the handler let staff delete orders.
OrderDeletersWithStaff == {"ADMIN", "STAFF"}

\* requireRole(['ADMIN']): the roles that may delete an order.
OrderDeleters == {"ADMIN"}

\* DELETE /api/orders/[id]
DeleteOrder(u, id) ==
    LET op == "DELETE /api/orders/[id]"
    IN  IF ~RequireRole(u, OrderDeleters)
        THEN /\ last' = Resp(op, u, id, 500, "Forbidden: Insufficient permissions",
                             {}, <<>>)
             /\ UNCHANGED <<customers, orders, payments, activityLogs, inflight, screen, users, issued, localStorage, sync, uuids>>
        ELSE IF id \notin DOMAIN orders
        THEN /\ last' = Resp(op, u, id, 404, "Order not found", {},
                             <<"order.findUnique">>)
             /\ UNCHANGED <<customers, orders, payments, activityLogs, inflight, screen, users, issued, localStorage, sync, uuids>>
        ELSE /\ orders' = [o \in DOMAIN orders \ {id} |-> orders[o]]
             /\ payments' = WithoutPaymentsOf(payments, id)
             /\ LogThenRespond(LogEntry(u, orders[id].branchId, "DELETE", "ORDER", id),
                    Resp(op, u, id, 200, NULL, {},
                             <<"order.findUnique", "order.delete">>))
             /\ UNCHANGED <<customers, inflight, screen, users, issued, localStorage, sync, uuids>>

----------------------------------------------------------------------------
(* /api/orders/[id] *)

\* The lookup, had it left out the branch comparison.
OrderAccessUnscoped(user, id) ==
    IF id \notin DOMAIN orders THEN <<404, "Order not found">> ELSE <<200, NULL>>

\* The lookup every /api/orders/[id] handler starts with.
OrderAccess(user, id) ==
    IF id \notin DOMAIN orders THEN <<404, "Order not found">>
    ELSE IF user.role # "ADMIN" /\ orders[id].branchId # user.branchId
    THEN <<403, "Order not found">>
    ELSE <<200, NULL>>

GetOrderResponse(u, id) ==
    LET user == RequireAuth(u)
        op == "GET /api/orders/[id]"
        access == OrderAccess(user, id)
    IN  IF access[1] # 200
        THEN Resp(op, user, id, access[1], access[2], {}, <<"order.findUnique">>)
        ELSE Resp(op, user, id, 200, NULL,
                  {OrderView(id), CustomerView(orders[id].customerId)}
                    \cup {PaymentView(i) : i \in PaymentIdsOf(id)},
                  <<"order.findUnique">>)

\* GET /api/orders/[id]
GetOrder(u, id) ==
    /\ last' = GetOrderResponse(u, id)
    /\ UNCHANGED <<customers, orders, payments, activityLogs, inflight, screen, users, issued, localStorage, sync, uuids>>

\* PATCH /api/orders/[id]; body = [totalAmount, dueDate, branchId]
PatchOrder(u, id, body) ==
    LET user == RequireAuth(u)
        op == "PATCH /api/orders/[id]"
        access == OrderAccess(user, id)
    IN  IF access[1] # 200
        THEN /\ last' = Resp(op, user, id, access[1], access[2], {},
                             <<"order.findUnique">>)
             /\ UNCHANGED <<customers, orders, payments, activityLogs, inflight, screen, users, issued, localStorage, sync, uuids>>
        ELSE /\ orders' = [orders EXCEPT
                            ![id].totalAmount = IF ~Falsy(body.totalAmount)
                                                THEN ParseFloat(body.totalAmount)
                                                ELSE @,
                            ![id].dueDate = IF body.dueDate # MissingDate
                                            THEN body.dueDate
                                            ELSE @]
             /\ LET resp == Resp(op, user, id, 200, NULL,
                                 {OrderView(id), CustomerView(orders[id].customerId)}
                                   \cup {PaymentView(i) : i \in PaymentIdsOf(id)},
                                 <<"order.findUnique", "order.update">>)
                IN  IF \/ ~Falsy(body.totalAmount)
                           /\ ParseFloat(body.totalAmount) # orders[id].totalAmount
                       \/ body.dueDate # MissingDate
                           /\ body.dueDate # orders[id].dueDate
                    THEN LogThenRespond(LogEntry(user, orders[id].branchId,
                                                 "UPDATE", "ORDER", id), resp)
                    ELSE UNCHANGED activityLogs /\ last' = resp
             /\ UNCHANGED <<customers, payments, inflight, screen, users, issued, localStorage, sync, uuids>>

----------------------------------------------------------------------------
(* /api/payments *)

\* GET /api/payments
GetPayments(u) ==
    LET user == RequireAuth(u)
        op == "GET /api/payments"
    IN  /\ last' = IF user.role # "ADMIN" /\ user.branchId = NULL
                   THEN Resp(op, user, NULL, 400, "User not assigned to a branch",
                             {}, <<>>)
                   ELSE Resp(op, user, NULL, 200, NULL,
                             {PaymentView(i) : i \in
                                 {j \in 1..Len(payments) :
                                     user.role = "ADMIN"
                                       \/ orders[payments[j].orderId].branchId
                                            = user.branchId}},
                             <<"payment.findMany">>)
        /\ UNCHANGED <<customers, orders, payments, activityLogs, inflight, screen, users, issued, localStorage, sync, uuids>>

\* if (!orderId || !amount || amount <= 0)
InvalidPaymentRequest(body) ==
    body.orderId = NULL \/ Falsy(body.amount) \/ NumLeq(body.amount, 0)

\* prisma.order.findUnique({ where: { id }, include: { payments: true } })
FindOrder(id) ==
    IF id \in DOMAIN orders
    THEN [found |-> TRUE, branchId |-> orders[id].branchId,
          totalAmount |-> orders[id].totalAmount,
          payments |-> PaymentsOf(payments, id)]
    ELSE [found |-> FALSE]

\* if (amount > balance), balance computed from the order as it was read
ExceedsBalance(amount, order) ==
    NumGt(amount, order.totalAmount - SumAmounts(order.payments))

\* The checks between reading the order and inserting the payment: the
\* <<status, error>> of the rejection, or <<201, NULL>> to go on.
PaymentChecks(user, body, order) ==
    IF ~order.found THEN <<404, "Order not found">>
    ELSE IF ~hasAccessToBranch(user, order.branchId) THEN <<403, "Order not found">>
    ELSE IF ExceedsBalance(body.amount, order)
    THEN <<400, "Payment amount exceeds outstanding balance">>
    ELSE <<201, NULL>>

\* sendPaymentConfirmationSMS: "off" (disabled or without credentials),
\* "sent", or "failed" (the provider throws).
SmsOutcomes == {"off", "sent", "failed"}

\* The confirmation followed by the response, had neither the function nor
\* the handler caught the provider's error: the handler's outer catch answers.
ConfirmThenRespondUncaught(outcome, resp) ==
    IF outcome = "failed"
    THEN [resp EXCEPT !.status = 500, !.error = "Failed to create payment",
                      !.returned = {}, !.sms = outcome]
    ELSE [resp EXCEPT !.sms = outcome]

\* try { await sendPaymentConfirmationSMS(...) } catch { console.error },
\* then the response; the response keeps the outcome as `sms`.
ConfirmThenRespond(outcome, resp) == [resp EXCEPT !.sms = outcome]

\* prisma.payment.create, logActivity, sendPaymentConfirmationSMS, response
CreatePayment(user, body, order) ==
    /\ Len(payments) < MaxPayments
    /\ payments' = Append(payments,
                     [orderId |-> body.orderId, amount |-> ParseFloat(body.amount)])
    /\ \E outcome \in SmsOutcomes :
          LogThenRespond(LogEntry(user, order.branchId, "CREATE", "PAYMENT",
                                  PaymentId(Len(payments) + 1)),
              ConfirmThenRespond(outcome,
                  Resp("POST /api/payments", user, body, 201, NULL,
                       {View("payment", PaymentId(Len(payments) + 1), order.branchId)},
                       <<"order.findUnique", "payment.create", "activityLog.create",
                         "sendPaymentConfirmationSMS">>)))

\* POST /api/payments, run from request to response with nothing in between;
\* body = [orderId, amount]
PostPayment(u, body) ==
    LET user == RequireAuth(u)
        op == "POST /api/payments"
    IN  IF InvalidPaymentRequest(body)
        THEN /\ last' = Resp(op, user, body, 400,
                             "Order ID and valid amount are required", {}, <<>>)
             /\ UNCHANGED <<customers, orders, payments, activityLogs, inflight, screen, users, issued, localStorage, sync, uuids>>
        ELSE LET order == FindOrder(body.orderId)
                 check == PaymentChecks(user, body, order)
             IN  IF check[1] # 201
                 THEN /\ last' = Resp(op, user, body, check[1], check[2], {},
                                      <<"order.findUnique">>)
                      /\ UNCHANGED <<customers, orders, payments, activityLogs,
                                     inflight, screen, users, issued, localStorage, sync, uuids>>
                 ELSE /\ CreatePayment(user, body, order)
                      /\ UNCHANGED <<customers, orders, inflight, screen, users, issued, localStorage, sync, uuids>>

\* POST /api/payments up to `await prisma.payment.create`: validation, the
\* read of the order and the checks on what was read.
PostPaymentFind(s, u, body) ==
    LET user == RequireAuth(u)
        op == "POST /api/payments"
    IN  /\ inflight[s].pc = "idle"
        /\ IF InvalidPaymentRequest(body)
           THEN /\ last' = Resp(op, user, body, 400,
                                "Order ID and valid amount are required", {}, <<>>)
                /\ UNCHANGED inflight
           ELSE LET order == FindOrder(body.orderId)
                    check == PaymentChecks(user, body, order)
                IN  IF check[1] # 201
                    THEN /\ last' = Resp(op, user, body, check[1], check[2], {},
                                         <<"order.findUnique">>)
                         /\ UNCHANGED inflight
                    ELSE /\ inflight' = [inflight EXCEPT ![s] =
                                [pc |-> "create", user |-> user, body |-> body,
                                 order |-> order]]
                         /\ UNCHANGED last
        /\ UNCHANGED <<customers, orders, payments, activityLogs, screen, users, issued, localStorage, sync, uuids>>

\* ... and from the insert to the response.
PostPaymentCreate(s) ==
    /\ inflight[s].pc = "create"
    /\ CreatePayment(inflight[s].user, inflight[s].body, inflight[s].order)
    /\ inflight' = [inflight EXCEPT ![s] = Idle]
    /\ UNCHANGED <<customers, orders, screen, users, issued, localStorage, sync, uuids>>

----------------------------------------------------------------------------
(* lib/activity-log: the queries, and GET /api/activity-logs *)

\* prisma.activityLog.findMany / count with a where clause on both columns;
\* a column whose filter is NULL is not restricted.
LogsWhere(logs, branchId, userId) ==
    SelectSeq(logs, LAMBDA e : /\ (branchId # NULL => e.branchId = branchId)
                               /\ (userId # NULL => e.userId = userId))

\* getActivityLogs({ branchId, userId }); a filter that is not given does
\* not restrict.
getActivityLogs(logs, branchId, userId) == LogsWhere(logs, branchId, userId)

getUserActivitySummary(logs, userId) ==
    LET mine == LogsWhere(logs, NULL, userId)
    IN  [totalActivities |-> Len(mine),
         activityByType |->
            {<<e.entity, Len(SelectSeq(mine, LAMBDA x : x.entity = e.entity))>> :
                e \in {mine[i] : i \in DOMAIN mine}}]

getBranchActivitySummary(logs, branchId) ==
    LET theirs == LogsWhere(logs, branchId, NULL)
    IN  [totalActivities |-> Len(theirs),
         topUsers |->
            {<<e.userId, Len(SelectSeq(theirs, LAMBDA x : x.userId = e.userId))>> :
                e \in {theirs[i] : i \in DOMAIN theirs}}]

\* The summaries' recentActivities (a count over a time window) is left out.
\* The response of GET /api/activity-logs over the log table `logs`;
\* params = [branchId, userId, summary]
ActivityLogsResponse(u, params, logs) ==
    LET user == RequireAuth(u)
        op == "GET /api/activity-logs"
    IN  IF params.summary = "branch" /\ params.branchId # NULL
        THEN Resp(op, user, params, 200, NULL,
                  getBranchActivitySummary(logs, params.branchId),
                  <<"activityLog.count", "activityLog.groupBy">>)
        ELSE IF params.summary = "user" /\ params.userId # NULL
        THEN Resp(op, user, params, 200, NULL,
                  getUserActivitySummary(logs, params.userId),
                  <<"activityLog.count", "activityLog.groupBy">>)
        ELSE IF user.role # "ADMIN" /\ user.branchId = NULL
        THEN Resp(op, user, params, 400, "User not assigned to a branch", <<>>, <<>>)
        ELSE Resp(op, user, params, 200, NULL,
                  getActivityLogs(logs,
                                  IF user.role # "ADMIN" THEN user.branchId
                                  ELSE params.branchId,
                                  params.userId),
                  <<"activityLog.findMany">>)

GetActivityLogs(u, params) ==
    /\ last' = ActivityLogsResponse(u, params, activityLogs)
    /\ UNCHANGED <<customers, orders, payments, activityLogs, inflight, screen, users, issued, localStorage, sync, uuids>>

----------------------------------------------------------------------------
(* /api/users and /api/users/[id] *)

\* A JSON field that the body does not carry.
UNDEF == "undefined"

\* The values JavaScript takes for true in `!x`, `x && ...`, `x || ...`,
\* among those a body field has here.
Truthy(x) == x \notin {UNDEF, NULL, ""}

UserIdSeq == <<"admin", "staff1", "viewer1", "u4">>
UserIds   == {UserIdSeq[i] : i \in DOMAIN UserIdSeq}

\* The role/branch checks, had the one on ADMIN been left out.
UserBranchErrorStaffOnly(role, branchId) ==
    IF role \in {"STAFF", "VIEWER"} /\ ~Truthy(branchId)
    THEN "Staff and Viewer users must be assigned to a branch"
    ELSE NULL

\* The role/branch checks of POST and PATCH: the error of the rejection, or
\* NULL.
UserBranchError(role, branchId) ==
    IF role \in {"STAFF", "VIEWER"} /\ ~Truthy(branchId)
    THEN "Staff and Viewer users must be assigned to a branch"
    ELSE IF role = "ADMIN" /\ Truthy(branchId)
    THEN "Admin users cannot be assigned to a specific branch"
    ELSE NULL

\* A handler's answer that writes nothing.
UserReject(op, u, id, status, error, calls) ==
    /\ last' = Resp(op, u, id, status, error, {}, calls)
    /\ UNCHANGED <<customers, orders, payments, activityLogs, inflight, screen, users, issued, localStorage, sync, uuids>>

\* POST /api/users; body = [email, role, branchId] (name and password given)
PostUser(u, body) ==
    LET op == "POST /api/users"
        stored == IF Truthy(body.branchId) THEN body.branchId ELSE NULL
    IN  IF ~RequireRole(u, {"ADMIN"})
        THEN UserReject(op, u, NULL, 403, "Forbidden: Insufficient permissions", <<>>)
        ELSE IF ~Truthy(body.email) \/ ~Truthy(body.role)
        THEN UserReject(op, u, NULL, 400,
                        "Email, name, password, and role are required", <<>>)
        ELSE IF body.role \notin Roles
        THEN UserReject(op, u, NULL, 400,
                        "Invalid role. Must be ADMIN, STAFF, or VIEWER", <<>>)
        ELSE IF UserBranchError(body.role, body.branchId) # NULL
        THEN UserReject(op, u, NULL, 400,
                        UserBranchError(body.role, body.branchId), <<>>)
        ELSE IF \E x \in DOMAIN users : users[x].email = body.email
        THEN UserReject(op, u, NULL, 400, "A user with this email already exists",
                        <<"user.findUnique">>)
        ELSE IF Truthy(body.branchId) /\ body.branchId \notin Branches
        THEN UserReject(op, u, NULL, 404, "Branch not found",
                        <<"user.findUnique", "branch.findUnique">>)
        ELSE /\ DOMAIN users # UserIds
             /\ LET id == NewId(UserIdSeq, DOMAIN users)
                IN  /\ users' = [x \in DOMAIN users \cup {id} |->
                            IF x = id
                            THEN [role |-> body.role, branchId |-> stored,
                                  email |-> body.email, active |-> TRUE]
                            ELSE users[x]]
                    /\ LogThenRespond(LogEntry(u, IF Truthy(body.branchId)
                                               THEN body.branchId ELSE "system",
                                            "CREATE", "USER", id),
                           Resp(op, u, NULL, 201, NULL,
                                    {View("user", id, stored)},
                                    <<"user.findUnique", "user.create",
                                      "activityLog.create">>))
             /\ UNCHANGED <<customers, orders, payments, inflight, screen, issued, localStorage, sync, uuids>>

\* PATCH /api/users/[id]; body = [role, branchId, active] (no other field
\* sent); active is UNDEF, "true" or "false".
\* `params.id === admin.id`, had the comparison never matched.
IsOwnAccountNever(admin, id) == FALSE

\* `params.id === admin.id`: the request is aimed at the caller's own row.
IsOwnAccount(admin, id) == id = admin.id

PatchUser(u, id, body) ==
    LET op == "PATCH /api/users/[id]"
    IN  IF ~RequireRole(u, {"ADMIN"})
        THEN UserReject(op, u, id, 403, "Forbidden: Insufficient permissions", <<>>)
        ELSE IF id \notin DOMAIN users
        THEN UserReject(op, u, id, 404, "User not found", <<"user.findUnique">>)
        ELSE IF IsOwnAccount(u, id) /\ body.active = "false"
        THEN UserReject(op, u, id, 400, "You cannot deactivate your own account",
                        <<"user.findUnique">>)
        ELSE IF Truthy(body.role) /\ body.role \notin Roles
        THEN UserReject(op, u, id, 400,
                        "Invalid role. Must be ADMIN, STAFF, or VIEWER",
                        <<"user.findUnique">>)
        ELSE LET newRole == IF Truthy(body.role) THEN body.role ELSE users[id].role
                 newBranchId == IF body.branchId # UNDEF THEN body.branchId
                                ELSE users[id].branchId
                 stored == IF body.branchId = UNDEF THEN users[id].branchId
                           ELSE IF Truthy(body.branchId) THEN body.branchId
                           ELSE NULL
             IN  IF UserBranchError(newRole, newBranchId) # NULL
                 THEN UserReject(op, u, id, 400,
                                 UserBranchError(newRole, newBranchId),
                                 <<"user.findUnique">>)
                 ELSE IF /\ Truthy(newBranchId)
                         /\ newBranchId # users[id].branchId
                         /\ newBranchId \notin Branches
                 THEN UserReject(op, u, id, 404, "Branch not found",
                                 <<"user.findUnique", "branch.findUnique">>)
                 ELSE /\ users' = [users EXCEPT
                                     ![id].role = IF Truthy(body.role)
                                                  THEN body.role ELSE @,
                                     ![id].branchId = stored,
                                     ![id].active = IF body.active = UNDEF THEN @
                                                    ELSE body.active = "true"]
                      /\ LogThenRespond(LogEntry(u, IF stored # NULL THEN stored
                                                 ELSE "system",
                                              "UPDATE", "USER", id),
                             Resp(op, u, id, 200, NULL,
                                      {View("user", id, stored)},
                                      <<"user.findUnique", "user.update",
                                        "activityLog.create">>))
                      /\ UNCHANGED <<customers, orders, payments, inflight, screen, issued, localStorage, sync, uuids>>

\* DELETE /api/users/[id]: the user is deactivated, the row stays.
DeleteUser(u, id) ==
    LET op == "DELETE /api/users/[id]"
    IN  IF ~RequireRole(u, {"ADMIN"})
        THEN UserReject(op, u, id, 403, "Forbidden: Insufficient permissions", <<>>)
        ELSE IF id \notin DOMAIN users
        THEN UserReject(op, u, id, 404, "User not found", <<"user.findUnique">>)
        ELSE IF IsOwnAccount(u, id)
        THEN UserReject(op, u, id, 400, "You cannot delete your own account",
                        <<"user.findUnique">>)
        ELSE /\ users' = [users EXCEPT ![id].active = FALSE]
             /\ LogThenRespond(LogEntry(u, IF users[id].branchId # NULL
                                           THEN users[id].branchId ELSE "system",
                                        "DELETE", "USER", id),
                    Resp(op, u, id, 200, NULL, {View("user", id, users[id].branchId)},
                         <<"user.findUnique", "user.update", "activityLog.create">>))
             /\ UNCHANGED <<customers, orders, payments, inflight, screen, issued, localStorage, sync, uuids>>

----------------------------------------------------------------------------
(* Requests *)

\* "B9" is the id of no branch; "" is an empty branchId.
CustomerBodies ==
    [fullName : Names \cup {NULL}, branchId : Branches \cup {NULL, "", "B9"}]
CustomerPatches == [fullName : Names \cup {NULL}, branchId : {NULL, "B2"}]
OrderTotals == {MissingAmount, [kind |-> "numeric", v |-> 1], [kind |-> "numeric", v |-> 2]}
InitialPayments == {MissingAmount, [kind |-> "numeric", v |-> 1]}
OrderBodies ==
    [customerId : CustomerIds \cup {NULL, GhostId}, branchId : {NULL, "B1"},
     totalAmount : OrderTotals,
     dueDate : {MissingDate, [day |-> 2 * MaxDays, hour |-> 0]},
     initialPayment : InitialPayments]
OrderPatches ==
    [totalAmount : OrderTotals, branchId : {NULL, "B2"},
     dueDate : {MissingDate, [day |-> 2 * MaxDays, hour |-> 0]}]
PaymentBodies == [orderId : OrderIds \cup {NULL, GhostId}, amount : AmountInputs]
\* The payment requests of the whole-API specification.
FewPaymentBodies ==
    {b \in PaymentBodies :
        b.amount \in {MissingAmount, [kind |-> "numeric", v |-> 1],
                      [kind |-> "prefixed", v |-> 2]}}
\* Amounts a well-behaved client sends: numbers.
NumericPaymentBodies ==
    {b \in PaymentBodies : b.orderId \in OrderIds /\ b.amount.kind = "numeric"}

UserBodies ==
    [email : {UNDEF, "admin", "new"}, role : Roles \cup {UNDEF, "BOSS"},
     branchId : Branches \cup {UNDEF, NULL, "", "B9"}]
AllUserPatches ==
    [role : Roles \cup {UNDEF, "BOSS"}, branchId : Branches \cup {UNDEF, NULL, "", "B9"},
     active : {UNDEF, "true", "false"}]
\* The patches of role and branch alone.
UserPatches == {b \in AllUserPatches : b.active = UNDEF}

\* The client takes the response; the next request follows it.
Deliver ==
    /\ last # NoRequest
    /\ last' = NoRequest
    /\ UNCHANGED <<customers, orders, payments, activityLogs, inflight, screen, users, issued, localStorage, sync, uuids>>

\* Reading requests.
Read ==
    \/ \E u \in SessionUsers : GetCustomers(u)
    \/ \E u \in SessionUsers, id \in CustomerIds \cup {GhostId} : GetCustomer(u, id)
    \/ \E u \in SessionUsers : GetOrders(u)
    \/ \E u \in SessionUsers, id \in OrderIds \cup {GhostId} : GetOrder(u, id)
    \/ \E u \in SessionUsers : GetPayments(u)

\* Writing requests of each screen.
WriteCustomers ==
    \/ \E u \in SessionUsers, b \in CustomerBodies : PostCustomer(u, b)
    \/ \E u \in SessionUsers, id \in CustomerIds \cup {GhostId}, b \in CustomerPatches :
          PatchCustomer(u, id, b)

WriteOrders ==
    \/ \E u \in SessionUsers, b \in OrderBodies : PostOrder(u, b)
    \/ \E u \in SessionUsers, id \in OrderIds \cup {GhostId}, b \in OrderPatches :
          PatchOrder(u, id, b)

WritePayments ==
    \E u \in SessionUsers, b \in FewPaymentBodies : PostPayment(u, b)

WriteUsers ==
    \/ \E u \in SessionUsers, b \in UserBodies : PostUser(u, b)
    \/ \E u \in SessionUsers, id \in {"admin", "staff1", "u4", GhostId},
          b \in UserPatches : PatchUser(u, id, b)

\* One request at a time: a request is sent once the previous response has
\* been taken.
Next ==
    \/ last = NoRequest /\ Read
    \/ last = NoRequest /\ screen = "customers" /\ WriteCustomers
    \/ last = NoRequest /\ screen = "orders" /\ WriteOrders
    \/ last = NoRequest /\ screen = "payments" /\ WritePayments
    \/ Deliver

\* User administration alone.
InitUsers ==
    /\ customers = SeedCustomers
    /\ orders = SeedOrders
    /\ payments = SeedPayments
    /\ activityLogs = <<>>
    /\ last = NoRequest
    /\ inflight = [s \in Slots |-> Idle]
    /\ screen = "users"
    /\ users = SeedUsers
    /\ issued = SeedIssued
    /\ localStorage = EmptyStorage
    /\ sync = SyncIdle
    /\ uuids = 0

NextUsers ==
    \/ last = NoRequest /\ WriteUsers
    \/ Deliver

SpecUsers == InitUsers /\ [][NextUsers]_vars

Spec == Init /\ [][Next]_vars

\* The seeded shop, on the payment screen.
InitPayments == Init /\ screen = "payments"

\* Payment recording alone, one request after another, over every amount a
\* request can carry.
NextPay ==
    \/ last = NoRequest /\ \E u \in SessionUsers, b \in PaymentBodies : PostPayment(u, b)
    \/ Deliver

SpecPay == InitPayments /\ [][NextPay]_vars

\* Concurrent payment recording: requests interleave at their awaits.
NextConc ==
    \/ \E s \in Slots, u \in SessionUsers, b \in NumericPaymentBodies :
          PostPaymentFind(s, u, b)
    \/ \E s \in Slots : PostPaymentCreate(s)

SpecConc == InitPayments /\ [][NextConc]_vars

\* Order numbering alone: orders taken one after another and deleted by
\* the administrator.  The table starts with the seeded orders, numbered
\* either 1 and 2 or 9998 and 9999.
HighOrders ==
    [o \in DOMAIN SeedOrders |->
        [SeedOrders[o] EXCEPT
            !.orderNumber = OrderNumber(CurrentYear, 9997 + parseInt(@.digits))]]

NumberingUsers == {u \in SessionUsers : u.id \in {"admin", "staff1"}}

NumberingBodies ==
    {b \in OrderBodies :
        /\ b.customerId \in {"c1", GhostId}
        /\ b.branchId = NULL
        /\ b.totalAmount = [kind |-> "numeric", v |-> 2]
        /\ b.dueDate # MissingDate
        /\ b.initialPayment = MissingAmount}

InitNumbers ==
    /\ customers = SeedCustomers
    /\ orders \in {SeedOrders, HighOrders}
    /\ payments = SeedPayments
    /\ activityLogs = <<>>
    /\ last = NoRequest
    /\ inflight = [s \in Slots |-> Idle]
    /\ screen = "numbers"
    /\ users = SeedUsers
    /\ issued = <<orders["o1"].orderNumber, orders["o2"].orderNumber>>
    /\ localStorage = EmptyStorage
    /\ sync = SyncIdle
    /\ uuids = 0

TakeOrder ==
    /\ last = NoRequest
    /\ \E u \in NumberingUsers, b \in NumberingBodies : PostOrder(u, b)

RemoveOrder ==
    /\ last = NoRequest
    /\ \E u \in NumberingUsers, id \in OrderIds \cup {GhostId} : DeleteOrder(u, id)

NextNumbers ==
    \/ TakeOrder
    \/ RemoveOrder
    \/ Deliver

SpecNumbers == InitNumbers /\ [][NextNumbers]_vars

\* Concurrent order creation: requests interleave at the await between the
\* read of the last order number and the insert.
InitOrders == Init /\ screen = "orders"

ConcurrentBodies ==
    {b \in OrderBodies :
        /\ b.branchId = NULL
        /\ b.totalAmount \in {[kind |-> "numeric", v |-> 2], MissingAmount}
        /\ b.dueDate # MissingDate
        /\ b.initialPayment = MissingAmount}

NextOrderConc ==
    \/ \E s \in Slots, u \in SessionUsers, b \in ConcurrentBodies :
          PostOrderFind(s, u, b)
    \/ \E s \in Slots : PostOrderCreate(s)

SpecOrderConc == InitOrders /\ [][NextOrderConc]_vars

\* Customers and orders together: every creation and update of either,
\* by every user, with and without a branchId in the body.
InheritCustomerBodies == {b \in CustomerBodies : b.fullName # "Kofi"}

InheritOrderBodies ==
    {b \in OrderBodies :
        /\ b.totalAmount \in {[kind |-> "numeric", v |-> 2], MissingAmount}
        /\ b.dueDate # MissingDate
        /\ b.initialPayment = MissingAmount}

InheritCustomerPatches == {b \in CustomerPatches : b.fullName # "Ama"}

InheritOrderPatches ==
    {b \in OrderPatches :
        b.dueDate = MissingDate /\ b.totalAmount # [kind |-> "numeric", v |-> 2]}


InitInherit ==
    /\ customers = SeedCustomers
    /\ orders = SeedOrders
    /\ payments = SeedPayments
    /\ activityLogs = <<>>
    /\ last = NoRequest
    /\ inflight = [s \in Slots |-> Idle]
    /\ screen = "customers and orders"
    /\ users = SeedUsers
    /\ issued = SeedIssued
    /\ localStorage = EmptyStorage
    /\ sync = SyncIdle
    /\ uuids = 0

NextInherit ==
    \/ last = NoRequest
         /\ \E u \in SessionUsers, b \in InheritCustomerBodies : PostCustomer(u, b)
    \/ last = NoRequest
         /\ \E u \in SessionUsers, id \in CustomerIds \cup {GhostId},
               b \in InheritCustomerPatches : PatchCustomer(u, id, b)
    \/ last = NoRequest
         /\ \E u \in SessionUsers, b \in InheritOrderBodies : PostOrder(u, b)
    \/ last = NoRequest
         /\ \E u \in SessionUsers, id \in OrderIds \cup {GhostId},
               b \in InheritOrderPatches : PatchOrder(u, id, b)
    \/ Deliver

SpecInherit == InitInherit /\ [][NextInherit]_vars

\* Payments and order updates together, one request at a time, with
\* numeric amounts only.
BalancePatches == {b \in OrderPatches : b.branchId = NULL /\ b.dueDate = MissingDate}

InitBalance ==
    /\ customers = SeedCustomers
    /\ orders = SeedOrders
    /\ payments = SeedPayments
    /\ activityLogs = <<>>
    /\ last = NoRequest
    /\ inflight = [s \in Slots |-> Idle]
    /\ screen = "payments and orders"
    /\ users = SeedUsers
    /\ issued = SeedIssued
    /\ localStorage = EmptyStorage
    /\ sync = SyncIdle
    /\ uuids = 0

NextBalance ==
    \/ last = NoRequest
         /\ \E u \in SessionUsers, b \in NumericPaymentBodies : PostPayment(u, b)
    \/ last = NoRequest
         /\ \E u \in SessionUsers, id \in OrderIds \cup {GhostId},
               b \in BalancePatches : PatchOrder(u, id, b)
    \/ Deliver

SpecBalance == InitBalance /\ [][NextBalance]_vars

\* Orders taken with a deposit, and payments with numeric amounts, one
\* request at a time.
DepositBodies ==
    {b \in [customerId : {"c1"}, branchId : {NULL}, totalAmount : OrderTotals,
            dueDate : {[day |-> 2 * MaxDays, hour |-> 0]},
            initialPayment : {MissingAmount} \cup
                             [kind : {"numeric"}, v : 0..MaxAmount]] :
        b.totalAmount # MissingAmount}

InitDeposit ==
    /\ customers = SeedCustomers
    /\ orders = SeedOrders
    /\ payments = SeedPayments
    /\ activityLogs = <<>>
    /\ last = NoRequest
    /\ inflight = [s \in Slots |-> Idle]
    /\ screen = "orders with deposit"
    /\ users = SeedUsers
    /\ issued = SeedIssued
    /\ localStorage = EmptyStorage
    /\ sync = SyncIdle
    /\ uuids = 0

NextDeposit ==
    \/ last = NoRequest
         /\ \E u \in SessionUsers, b \in DepositBodies : PostOrder(u, b)
    \/ last = NoRequest
         /\ \E u \in SessionUsers, b \in NumericPaymentBodies : PostPayment(u, b)
    \/ Deliver

SpecDeposit == InitDeposit /\ [][NextDeposit]_vars

\* Every mutation of the API, deletions included, one request at a time.
AuditScreens == {"customers", "orders", "payments", "users"}

InitAudit ==
    /\ customers = SeedCustomers
    /\ orders = SeedOrders
    /\ payments = SeedPayments
    /\ activityLogs = <<>>
    /\ last = NoRequest
    /\ inflight = [s \in Slots |-> Idle]
    /\ screen \in AuditScreens
    /\ users = SeedUsers
    /\ issued = SeedIssued
    /\ localStorage = EmptyStorage
    /\ sync = SyncIdle
    /\ uuids = 0

AuditCustomerBodies ==
    {b \in CustomerBodies : b.fullName # "Kofi" /\ b.branchId \in {NULL, "B1", "B9"}}

AuditCustomerPatches ==
    {b \in CustomerPatches : b.fullName # "Ama" /\ b.branchId = NULL}

AuditOrderBodies ==
    {b \in OrderBodies :
        /\ b.customerId \in {"c1", GhostId}
        /\ b.branchId = NULL
        /\ b.totalAmount # [kind |-> "numeric", v |-> 1]
        /\ b.dueDate # MissingDate
        /\ b.initialPayment = MissingAmount}

AuditOrderPatches ==
    {b \in OrderPatches :
        /\ b.branchId = NULL
        /\ b.dueDate = MissingDate
        /\ b.totalAmount # [kind |-> "numeric", v |-> 2]}

AuditUserBodies ==
    {b \in UserBodies :
        /\ b.email \in {UNDEF, "new"}
        /\ b.role \in {"STAFF", "ADMIN", "BOSS"}
        /\ b.branchId \in {UNDEF, "B1", "B9"}}

AuditUserPatches ==
    {b \in AllUserPatches :
        b.role \in {UNDEF, "STAFF"} /\ b.branchId \in {UNDEF, "B1", NULL}}

ChangeCustomer ==
    \/ \E u \in SessionUsers, b \in AuditCustomerBodies : PostCustomer(u, b)
    \/ \E u \in SessionUsers, id \in CustomerIds \cup {GhostId},
          b \in AuditCustomerPatches : PatchCustomer(u, id, b)
    \/ \E u \in SessionUsers, id \in CustomerIds \cup {GhostId} : DeleteCustomer(u, id)

ChangeOrder ==
    \/ \E u \in SessionUsers, b \in AuditOrderBodies : PostOrder(u, b)
    \/ \E u \in NumberingUsers, id \in {"o1", GhostId},
          b \in AuditOrderPatches : PatchOrder(u, id, b)
    \/ \E u \in SessionUsers, id \in OrderIds \cup {GhostId} : DeleteOrder(u, id)

ChangeUser ==
    \/ \E u \in SessionUsers, b \in AuditUserBodies : PostUser(u, b)
    \/ \E u \in SessionUsers, id \in {"admin", "staff1", GhostId},
          b \in AuditUserPatches : PatchUser(u, id, b)
    \/ \E u \in SessionUsers, id \in {"admin", "staff1", GhostId} : DeleteUser(u, id)

NextAudit ==
    \/ last = NoRequest /\ screen = "customers" /\ ChangeCustomer
    \/ last = NoRequest /\ screen = "orders" /\ ChangeOrder
    \/ last = NoRequest /\ screen = "payments" /\ WritePayments
    \/ last = NoRequest /\ screen = "users" /\ ChangeUser
    \/ Deliver

SpecAudit == InitAudit /\ [][NextAudit]_vars

\* GET /api/reports/weekly-payments.  Payments carry their paymentDate
\* here; a Date is a day number and an hour of that day, in local time.
ReportDates == [day : 0..3, hour : {0, 23}]

ReportPayments == [orderId : {"o1"}, amount : {1, 2}, paymentDate : ReportDates]

\* Is instant a not after instant b?
DateLeq(a, b) == a.day < b.day \/ (a.day = b.day /\ a.hour <= b.hour)

\* format(date, 'yyyy-MM-dd'), had it kept the time of day.
formatWithTime(date) == date.day * 24 + date.hour

\* format(date, 'yyyy-MM-dd'): the calendar day, the time of day dropped.
format(date) == date.day

\* eachDayOfInterval({ start, end }): the start of every day from the day
\* of start to the day of end.
eachDayOfInterval(start, end) ==
    [i \in 1..(end.day - start.day + 1) |-> StartOfDay([day |-> start.day + i - 1,
                                                        hour |-> 0])]

\* prisma.payment.findMany({ where: { paymentDate: { gte, lte } } })
PaymentsBetween(ps, startDate, endDate) ==
    SelectSeq(ps, LAMBDA p : DateLeq(startDate, p.paymentDate)
                              /\ DateLeq(p.paymentDate, endDate))

\* The handler's answer: 400 without both dates, 500 when eachDayOfInterval
\* throws on an interval that ends before it starts.
WeeklyPaymentsResponse(ps, startDate, endDate) ==
    IF startDate = MissingDate \/ endDate = MissingDate
    THEN [op |-> "GET /api/reports/weekly-payments", status |-> 400,
          startDate |-> startDate, endDate |-> endDate,
          totalAmount |-> 0, totalCount |-> 0, byDay |-> <<>>]
    ELSE IF ~DateLeq(startDate, endDate)
    THEN [op |-> "GET /api/reports/weekly-payments", status |-> 500,
          startDate |-> startDate, endDate |-> endDate,
          totalAmount |-> 0, totalCount |-> 0, byDay |-> <<>>]
    ELSE LET found == PaymentsBetween(ps, startDate, endDate)
             days == eachDayOfInterval(startDate, endDate)
         IN  [op |-> "GET /api/reports/weekly-payments", status |-> 200,
              startDate |-> startDate, endDate |-> endDate,
              totalAmount |-> SumAmounts(found),
              totalCount |-> Len(found),
              byDay |-> [i \in DOMAIN days |->
                  LET dayPayments ==
                          SelectSeq(found, LAMBDA p :
                              format(p.paymentDate) = format(days[i]))
                  IN  [date |-> format(days[i]),
                       total |-> SumAmounts(dayPayments),
                       count |-> Len(dayPayments)]]]

GetWeeklyPayments(startDate, endDate) ==
    /\ last = NoRequest
    /\ last' = WeeklyPaymentsResponse(payments, startDate, endDate)
    /\ UNCHANGED <<customers, orders, payments, activityLogs, inflight, screen, users, issued, localStorage, sync, uuids>>

\* The payment table holds up to two payments of the first order.
InitReport ==
    /\ customers = SeedCustomers
    /\ orders = SeedOrders
    /\ payments \in {<<>>} \cup [1..1 -> ReportPayments] \cup [1..2 -> ReportPayments]
    /\ activityLogs = <<>>
    /\ last = NoRequest
    /\ inflight = [s \in Slots |-> Idle]
    /\ screen = "reports"
    /\ users = SeedUsers
    /\ issued = SeedIssued
    /\ localStorage = EmptyStorage
    /\ sync = SyncIdle
    /\ uuids = 0

RunReport ==
    \E startDate, endDate \in ReportDates \cup {MissingDate} :
        GetWeeklyPayments(startDate, endDate)

NextReport ==
    \/ RunReport
    \/ Deliver

SpecReport == InitReport /\ [][NextReport]_vars

\* lib/utils: enrichOrder.  The function reads the clock twice: once inside
\* calculateDaysToDue for daysToDue, once inside getDueDateUrgency for
\* urgency.

\* calculateAmountPaid(payments)
calculateAmountPaid(ps) == SumAmounts(ps)

\* calculateBalance(totalAmount, amountPaid)
calculateBalance(totalAmount, amountPaid) == totalAmount - amountPaid

\* enrichOrder(order), `now1` and `now2` being the two readings of new Date().
enrichOrder(order, now1, now2) ==
    LET amountPaid == calculateAmountPaid(order.payments)
    IN  [order |-> order,
         amountPaid |-> amountPaid,
         balance |-> calculateBalance(order.totalAmount, amountPaid),
         daysToDue |-> calculateDaysToDue(order.dueDate, now1),
         urgency |-> getDueDateUrgency(order.dueDate, now2)]

\* Two successive readings of the clock, around the midnight that ends day
\* MaxDays.
ClockReadings ==
    {r \in [first : [day : {MaxDays, MaxDays + 1}, hour : {0, 23}],
            second : [day : {MaxDays, MaxDays + 1}, hour : {0, 23}]] :
        \/ r.first.day < r.second.day
        \/ r.first.day = r.second.day /\ r.first.hour <= r.second.hour}

EnrichOrders ==
    [totalAmount : 1..MaxAmount,
     dueDate : [day : (MaxDays - 2)..(MaxDays + 7), hour : {0, 23}],
     payments : {<<>>, <<[amount |-> 1]>>, <<[amount |-> 1], [amount |-> 1]>>}]

InitEnrich ==
    /\ customers = SeedCustomers
    /\ orders = SeedOrders
    /\ payments = SeedPayments
    /\ activityLogs = <<>>
    /\ inflight = [s \in Slots |-> Idle]
    /\ screen = "orders"
    /\ users = SeedUsers
    /\ issued = SeedIssued
    /\ localStorage = EmptyStorage
    /\ sync = SyncIdle
    /\ uuids = 0
    /\ last \in [op : {"call enrichOrder"}, order : EnrichOrders, clock : ClockReadings]

CallEnrichOrder ==
    /\ last.op = "call enrichOrder"
    /\ last' = [op |-> "enrichOrder", order |-> last.order, clock |-> last.clock,
                result |-> enrichOrder(last.order, last.clock.first, last.clock.second)]
    /\ UNCHANGED <<customers, orders, payments, activityLogs, inflight, screen, users, issued, localStorage, sync, uuids>>

NextEnrich == CallEnrichOrder

SpecEnrich == InitEnrich /\ [][NextEnrich]_vars

\* The offline queue: savePendingAction and syncPendingActions, the first
\* free to run whenever the second is suspended at an await.

SavePendingAction(storageKey) ==
    /\ uuids < MaxActions
    /\ uuids' = uuids + 1
    /\ localStorage' = savePendingAction(localStorage, storageKey, uuids + 1)
    /\ sync' = IF sync.pc = "fetch"
               THEN [sync EXCEPT !.added = @ \cup {uuids + 1}]
               ELSE sync
    /\ UNCHANGED <<customers, orders, payments, activityLogs, last, inflight, screen,
                   users, issued>>

\* syncPendingActions() up to its first await, or to its return when the
\* device is offline or nothing is pending.
StartSync(online) ==
    /\ sync.pc = "idle"
    /\ sync' = IF ~online
               THEN [SyncIdle EXCEPT !.pc = "done", !.online = FALSE,
                                     !.errors = <<"Device is offline">>,
                                     !.everOk = sync.everOk]
               ELSE NextFetch([SyncIdle EXCEPT !.everOk = sync.everOk], 1, localStorage)
    /\ UNCHANGED <<customers, orders, payments, activityLogs, last, inflight, screen,
                   users, issued, localStorage, uuids>>

\* The awaited fetch settles: the item is removed and counted on an OK
\* response, an error is noted otherwise; then the next item is sent, or the
\* next queue read, or the result returned.
FetchReturns(outcome) ==
    /\ sync.pc = "fetch"
    /\ LET storageKey == STORAGE_KEYS[sync.key]
           item == sync.snapshot[sync.i]
           store == IF responseOk(outcome)
                    THEN removePendingAction(localStorage, storageKey, item.id)
                    ELSE localStorage
           done == IF responseOk(outcome)
                   THEN [sync EXCEPT !.syncedCount = @ + 1]
                   ELSE [sync EXCEPT !.errors = Append(@, IF outcome = "throws"
                                                          THEN "Error syncing"
                                                          ELSE "Failed to sync")]
           \* history: what the server answered for the item
           s == IF outcome = "ok"
                THEN [done EXCEPT !.ok = @ \cup {item.id},
                                  !.everOk = @ \cup {item.id}]
                ELSE [done EXCEPT !.failed = @ \cup {item.id}]
       IN  /\ localStorage' = store
           /\ sync' = IF sync.i < Len(sync.snapshot)
                      THEN [s EXCEPT !.i = @ + 1,
                                     !.sent = @ \cup {sync.snapshot[sync.i + 1].id}]
                      ELSE NextFetch(s, sync.key + 1, store)
    /\ UNCHANGED <<customers, orders, payments, activityLogs, last, inflight, screen,
                   users, issued, uuids>>

\* The caller has the result of the run.
SyncReturned ==
    /\ sync.pc = "done"
    /\ sync' = [SyncIdle EXCEPT !.everOk = sync.everOk]
    /\ UNCHANGED <<customers, orders, payments, activityLogs, last, inflight, screen,
                   users, issued, localStorage, uuids>>

NextSync ==
    \/ \E storageKey \in StorageKeys : SavePendingAction(storageKey)
    \/ \E online \in BOOLEAN : StartSync(online)
    \/ \E outcome \in FetchOutcomes : FetchReturns(outcome)
    \/ SyncReturned

SpecSync == Init /\ [][NextSync]_vars

\* The audit trail: the writes of every screen, and its reading.
LogParams ==
    [branchId : Branches \cup {NULL}, userId : {"admin", "staff1", NULL},
     summary : {NULL, "branch", "user"}]

NextLogs ==
    \/ last = NoRequest /\ screen = "customers" /\ WriteCustomers
    \/ last = NoRequest /\ screen = "orders" /\ WriteOrders
    \/ last = NoRequest /\ screen = "payments" /\ WritePayments
    \/ last = NoRequest /\ \E u \in SessionUsers, q \in LogParams : GetActivityLogs(u, q)
    \/ Deliver

SpecLogs == Init /\ [][NextLogs]_vars

----------------------------------------------------------------------------
(* The functions of lib/branch on their own: the call is drawn at the start *)
(* and applied by the action.                                               *)

BranchCalls ==
    [op : {"call"}, user : [id : {"u"}, role : Roles, branchId : Branches \cup {NULL}],
     requested : Branches \cup {NULL, ""}, target : Branches \cup {"B9"}]

InitBranch ==
    /\ customers = SeedCustomers
    /\ orders = SeedOrders
    /\ payments = SeedPayments
    /\ activityLogs = <<>>
    /\ inflight = [s \in Slots |-> Idle]
    /\ screen = "customers"
    /\ users = SeedUsers
    /\ issued = SeedIssued
    /\ localStorage = EmptyStorage
    /\ sync = SyncIdle
    /\ uuids = 0
    /\ last \in BranchCalls

CallResolveBranchId ==
    /\ last.op = "call"
    /\ last' = [op |-> "resolveBranchId", user |-> last.user,
                requested |-> last.requested,
                result |-> resolveBranchId(last.user, last.requested)]
    /\ UNCHANGED <<customers, orders, payments, activityLogs, inflight, screen, users, issued, localStorage, sync, uuids>>

CallHasAccessToBranch ==
    /\ last.op = "call"
    /\ last' = [op |-> "hasAccessToBranch", user |-> last.user,
                target |-> last.target,
                result |-> hasAccessToBranch(last.user, last.target)]
    /\ UNCHANGED <<customers, orders, payments, activityLogs, inflight, screen, users, issued, localStorage, sync, uuids>>

CallBuildBranchFilter ==
    /\ last.op = "call"
    /\ last' = [op |-> "buildBranchFilter", user |-> last.user,
                result |-> buildBranchFilter(last.user)]
    /\ UNCHANGED <<customers, orders, payments, activityLogs, inflight, screen, users, issued, localStorage, sync, uuids>>

\* GET /api/customers, the caller of buildBranchFilter, for the drawn user.
CallGetCustomers ==
    /\ last.op = "call"
    /\ GetCustomers(last.user)

NextBranch ==
    \/ CallResolveBranchId
    \/ CallHasAccessToBranch
    \/ CallBuildBranchFilter
    \/ CallGetCustomers

SpecBranch == InitBranch /\ [][NextBranch]_vars

----------------------------------------------------------------------------
(* The functions of lib/utils on their own. *)

\* Order numbers of last year and of this year, around each change of length.
OrderNumberInputs ==
    {NoOrderNumber}
    \cup {OrderNumber(y, n) : y \in {CurrentYear - 1, CurrentYear},
                              n \in {1, 9, 42, 99, 999, 9998, 9999, 10000, 10999}}

UtilCalls ==
    [op : {"call getDueDateUrgency"}, dueDate : Dates,
     now : [day : {MaxDays}, hour : Hours]]
    \cup [op : {"call getUrgencyLabel"}, urgency : Urgencies,
          days : (-MaxDays)..MaxDays]
    \cup [op : {"call generateOrderNumber"}, lastOrderNumber : OrderNumberInputs,
          year : {CurrentYear, CurrentYear + 1}]

InitUtils ==
    /\ customers = SeedCustomers
    /\ orders = SeedOrders
    /\ payments = SeedPayments
    /\ activityLogs = <<>>
    /\ inflight = [s \in Slots |-> Idle]
    /\ screen = "orders"
    /\ users = SeedUsers
    /\ issued = SeedIssued
    /\ localStorage = EmptyStorage
    /\ sync = SyncIdle
    /\ uuids = 0
    /\ last \in UtilCalls

CallGetDueDateUrgency ==
    /\ last.op = "call getDueDateUrgency"
    /\ last' = [op |-> "getDueDateUrgency", dueDate |-> last.dueDate,
                now |-> last.now,
                days |-> calculateDaysToDue(last.dueDate, last.now),
                result |-> getDueDateUrgency(last.dueDate, last.now)]
    /\ UNCHANGED <<customers, orders, payments, activityLogs, inflight, screen, users, issued, localStorage, sync, uuids>>

CallGetUrgencyLabel ==
    /\ last.op = "call getUrgencyLabel"
    /\ last' = [op |-> "getUrgencyLabel", urgency |-> last.urgency,
                days |-> last.days,
                result |-> getUrgencyLabel(last.urgency, last.days)]
    /\ UNCHANGED <<customers, orders, payments, activityLogs, inflight, screen, users, issued, localStorage, sync, uuids>>

CallGenerateOrderNumber ==
    /\ last.op = "call generateOrderNumber"
    /\ last' = [op |-> "generateOrderNumber", lastOrderNumber |-> last.lastOrderNumber,
                year |-> last.year,
                result |-> generateOrderNumber(last.lastOrderNumber, last.year)]
    /\ UNCHANGED <<customers, orders, payments, activityLogs, inflight, screen, users, issued, localStorage, sync, uuids>>

NextUtils ==
    \/ CallGetDueDateUrgency
    \/ CallGetUrgencyLabel
    \/ CallGenerateOrderNumber

SpecUtils == InitUtils /\ [][NextUtils]_vars

----------------------------------------------------------------------------
(* lib/notifications and the two reminder routes.  A reminder function      *)
(* reads the clock when it computes the tier, so every call is given the    *)
(* reading it makes.  What a handler sent is kept in the response as a set  *)
(* of [orderId, channel, at].                                               *)

\* A channel is "off" (disabled or without credentials), "ok", or "fails"
\* (the provider throws and the function returns false).
ChannelStates == {"off", "ok", "fails"}

NotifyEnvs == [email : ChannelStates, sms : ChannelStates]

\* Clock readings around midnight of the day after day MaxDays.
Nows == [day : {MaxDays, MaxDays + 1}, hour : {0, 23}]

NotBefore(t1, t2) ==
    t1.day < t2.day \/ (t1.day = t2.day /\ t1.hour <= t2.hour)

\* Variant of sendSMSReminder whose final else also sends.
sendSMSReminderAnyTier(dueDate, env, now) ==
    IF env.sms = "off" THEN FALSE
    ELSE env.sms = "ok"

\* sendSMSReminder: TRUE when client.messages.create delivered a message.
sendSMSReminder(dueDate, env, now) ==
    IF env.sms = "off" THEN FALSE
    ELSE IF getDueDateUrgency(dueDate, now) \notin
              {"overdue", "warning-1", "warning-3", "warning-5"} THEN FALSE
    ELSE env.sms = "ok"

\* sendEmailReminder: TRUE when SendGrid or the SMTP transport sent a mail.
sendEmailReminder(dueDate, env, now) ==
    IF env.email = "off" THEN FALSE
    ELSE IF getDueDateUrgency(dueDate, now) = "safe" THEN FALSE
    ELSE env.email = "ok"

\* sendOrderReminder: the e-mail when the customer has an address, then the SMS.
sendOrderReminder(hasEmail, dueDate, env, tEmail, tSms) ==
    [email |-> hasEmail /\ sendEmailReminder(dueDate, env, tEmail),
     sms   |-> sendSMSReminder(dueDate, env, tSms)]

\* The messages behind a result of sendOrderReminder.
Messages(o, results, tEmail, tSms) ==
    {[orderId |-> o, channel |-> "email", at |-> tEmail] : x \in {1} \cap
        (IF results.email THEN {1} ELSE {})}
    \cup {[orderId |-> o, channel |-> "sms", at |-> tSms] : x \in {1} \cap
        (IF results.sms THEN {1} ELSE {})}

\* The readings of one reminder: the handler's tier check, the e-mail, the SMS.
Readings ==
    {t \in [check : Nows, email : Nows, sms : Nows] :
        NotBefore(t.check, t.email) /\ NotBefore(t.email, t.sms)}

\* What the handlers do for one order once it is loaded.
RemindOrder(o, hasEmail, env, t) ==
    IF getDueDateUrgency(orders[o].dueDate, t.check) = "safe" THEN {}
    ELSE Messages(o, sendOrderReminder(hasEmail, orders[o].dueDate, env, t.email, t.sms),
                  t.email, t.sms)

ReminderResp(op, status, sent) == [op |-> op, status |-> status, sent |-> sent]

\* GET /api/notifications/cron
CronReminders(authorized, hasEmail, env, t) ==
    /\ last = NoRequest
    /\ last' = IF ~authorized
               THEN ReminderResp("GET /api/notifications/cron", 401, {})
               ELSE ReminderResp("GET /api/notifications/cron", 200,
                        UNION {RemindOrder(o, hasEmail[o], env, t[o]) :
                                  o \in DOMAIN orders})
    /\ UNCHANGED <<customers, orders, payments, activityLogs, inflight, screen, users, issued, localStorage, sync, uuids>>

\* POST /api/notifications/send; body = [orderId]
SendReminder(orderId, hasEmail, env, t) ==
    /\ last = NoRequest
    /\ last' = IF orderId = NULL
               THEN ReminderResp("POST /api/notifications/send", 400, {})
               ELSE IF orderId \notin DOMAIN orders
               THEN ReminderResp("POST /api/notifications/send", 404, {})
               ELSE ReminderResp("POST /api/notifications/send", 200,
                                 RemindOrder(orderId, hasEmail, env, t))
    /\ UNCHANGED <<customers, orders, payments, activityLogs, inflight, screen, users, issued, localStorage, sync, uuids>>

\* sendEmailReminder called for an order, outside the two routes.
CallSendEmailReminder(o, env, now) ==
    /\ last = NoRequest
    /\ last' = ReminderResp("sendEmailReminder", 0,
                   Messages(o, [email |-> sendEmailReminder(orders[o].dueDate, env, now),
                                sms |-> FALSE], now, now))
    /\ UNCHANGED <<customers, orders, payments, activityLogs, inflight, screen, users, issued, localStorage, sync, uuids>>

\* sendSMSReminder called for an order, outside the two routes.
CallSendSMSReminder(o, env, now) ==
    /\ last = NoRequest
    /\ last' = ReminderResp("sendSMSReminder", 0,
                   Messages(o, [email |-> FALSE,
                                sms |-> sendSMSReminder(orders[o].dueDate, env, now)],
                            now, now))
    /\ UNCHANGED <<customers, orders, payments, activityLogs, inflight, screen, users, issued, localStorage, sync, uuids>>

ReminderOps ==
    {"GET /api/notifications/cron", "POST /api/notifications/send",
     "sendEmailReminder", "sendSMSReminder"}

\* The first seeded order is due on any day, the second stays far away.
InitReminders ==
    /\ customers = SeedCustomers
    /\ orders \in {[SeedOrders EXCEPT !["o1"].dueDate = d] : d \in Dates}
    /\ payments = SeedPayments
    /\ activityLogs = <<>>
    /\ inflight = [s \in Slots |-> Idle]
    /\ screen = "reminders"
    /\ users = SeedUsers
    /\ issued = SeedIssued
    /\ localStorage = EmptyStorage
    /\ sync = SyncIdle
    /\ uuids = 0
    /\ last = NoRequest

RunCron ==
    \E authorized \in BOOLEAN, env \in NotifyEnvs :
        \E hasEmail \in [DOMAIN orders -> BOOLEAN], t \in [DOMAIN orders -> Readings] :
            CronReminders(authorized, hasEmail, env, t)

RunSend ==
    \E orderId \in OrderIds \cup {NULL, GhostId}, hasEmail \in BOOLEAN,
       env \in NotifyEnvs, t \in Readings :
        SendReminder(orderId, hasEmail, env, t)

RunSendEmailReminder ==
    \E o \in DOMAIN orders, env \in NotifyEnvs, now \in Nows :
        CallSendEmailReminder(o, env, now)

RunSendSMSReminder ==
    \E o \in DOMAIN orders, env \in NotifyEnvs, now \in Nows :
        CallSendSMSReminder(o, env, now)

NextReminders ==
    \/ RunCron
    \/ RunSend
    \/ RunSendEmailReminder
    \/ RunSendSMSReminder
    \/ Deliver

SpecReminders == InitReminders /\ [][NextReminders]_vars

----------------------------------------------------------------------------
(* Properties *)

\* C1: after each successful payment recording of a run of POST
\* /api/payments requests made one after another, the sum of the order's
\* payment amounts is at most the order's totalAmount.
C1_PaidWithinTotal ==
    (last.op = "POST /api/payments" /\ last.status = 201)
        => AmountPaid(payments, last.req.orderId)
              <= orders[last.req.orderId].totalAmount

\* C2: whatever the interleaving of concurrent POST /api/payments requests
\* that carry valid numbers, the payments of an order never sum to more than
\* its totalAmount.
C2_ConcurrentPaidWithinTotal ==
    \A o \in DOMAIN orders : AmountPaid(payments, o) <= orders[o].totalAmount

\* C3: a POST /api/payments for an order the caller may access, with a
\* positive amount: when the amount is greater than the order's balance the
\* response is the "exceeds balance" error and no payment is appended; when it
\* equals the balance the payment is recorded and the balance becomes 0.
C3_ExceedsBalanceRejected ==
    [][ (/\ last = NoRequest
         /\ last'.op = "POST /api/payments"
         /\ last'.req.orderId \in DOMAIN orders
         /\ hasAccessToBranch(last'.user, orders[last'.req.orderId].branchId)
         /\ last'.req.amount.kind # "missing"
         /\ ParseFloat(last'.req.amount) > 0)
        => LET oid == last'.req.orderId
               amount == ParseFloat(last'.req.amount)
               balance == orders[oid].totalAmount - AmountPaid(payments, oid)
           IN  /\ amount > balance =>
                    /\ last'.status = 400
                    /\ last'.error = "Payment amount exceeds outstanding balance"
                    /\ payments' = payments
               /\ amount = balance =>
                    /\ last'.status = 201
                    /\ orders'[oid].totalAmount - AmountPaid(payments', oid) = 0
      ]_vars

\* C4: a POST /api/payments whose amount is missing, zero or negative is
\* answered with the "valid amount required" error before any database call,
\* and leaves the payments and the activity log as they were.
C4_InvalidAmountRejected ==
    [][ (/\ last = NoRequest
         /\ last'.op = "POST /api/payments"
         /\ \/ last'.req.amount.kind = "missing"
            \/ ParseFloat(last'.req.amount) <= 0)
        => /\ last'.status = 400
           /\ last'.error = "Order ID and valid amount are required"
           /\ last'.calls = <<>>
           /\ payments' = payments
           /\ activityLogs' = activityLogs
      ]_vars

\* C5: a request of a STAFF or VIEWER user to the customer, order and payment
\* routes returns only records of the user's branch, and creates or changes
\* only records of the user's branch (removing none).
C5_BranchIsolation ==
    [][ (/\ last = NoRequest
         /\ last'.op # "none"
         /\ last'.user.role # "ADMIN")
        => LET b == last'.user.branchId
           IN  /\ \A v \in last'.returned : v.branchId = b
               /\ DOMAIN customers \subseteq DOMAIN customers'
               /\ \A c \in DOMAIN customers :
                     customers'[c] # customers[c] =>
                        customers[c].branchId = b /\ customers'[c].branchId = b
               /\ \A c \in DOMAIN customers' \ DOMAIN customers :
                     customers'[c].branchId = b
               /\ DOMAIN orders \subseteq DOMAIN orders'
               /\ \A o \in DOMAIN orders :
                     orders'[o] # orders[o] =>
                        orders[o].branchId = b /\ orders'[o].branchId = b
               /\ \A o \in DOMAIN orders' \ DOMAIN orders : orders'[o].branchId = b
               /\ Len(payments') >= Len(payments)
               /\ SubSeq(payments', 1, Len(payments)) = payments
               /\ \A i \in (Len(payments) + 1)..Len(payments') :
                     orders'[payments'[i].orderId].branchId = b
      ]_vars

\* C5 witness: a STAFF user was refused another branch's order and nothing
\* of it was returned.
C5_Witness ==
    /\ last.op = "PATCH /api/orders/[id]"
    /\ last.user.role = "STAFF"
    /\ last.req \in DOMAIN orders
    /\ orders[last.req].branchId # last.user.branchId
    /\ last.status # 200
    /\ last.returned = {}

\* C6: the response of GET /api/activity-logs to a STAFF or VIEWER user,
\* whatever its summary, branchId and userId parameters, is the response the
\* same request gets when the log holds the entries of the user's branch only.
C6_OwnBranchLogsOnly ==
    (last.op = "GET /api/activity-logs" /\ last.user.role # "ADMIN")
        => last = ActivityLogsResponse(
                      last.user, last.req,
                      SelectSeq(activityLogs,
                                LAMBDA e : e.branchId = last.user.branchId))

\* C7: the status and error a STAFF or VIEWER user gets for a customer,
\* order or payment target that exists in another branch are those the same
\* request gets for an id that does not exist.
C7_CrossBranchLooksNotFound ==
    /\ (/\ last.op \in {"GET /api/customers/[id]", "PATCH /api/customers/[id]"}
        /\ last.user.role # "ADMIN"
        /\ last.req \in DOMAIN customers
        /\ customers[last.req].branchId # last.user.branchId)
       => <<last.status, last.error>> = CustomerAccess(last.user, GhostId)
    /\ (/\ last.op \in {"GET /api/orders/[id]", "PATCH /api/orders/[id]"}
        /\ last.user.role # "ADMIN"
        /\ last.req \in DOMAIN orders
        /\ orders[last.req].branchId # last.user.branchId)
       => <<last.status, last.error>> = OrderAccess(last.user, GhostId)
    /\ (/\ last.op = "POST /api/payments"
        /\ last.user.role # "ADMIN"
        /\ ~InvalidPaymentRequest(last.req)
        /\ last.req.orderId \in DOMAIN orders
        /\ orders[last.req.orderId].branchId # last.user.branchId)
       => <<last.status, last.error>>
             = PaymentChecks(last.user, last.req, FindOrder(GhostId))

\* C8: no request of a VIEWER creates or modifies a customer, an order or a
\* payment: each of its writing requests is rejected.
C8_ViewerReadOnly ==
    [][ (/\ last = NoRequest
         /\ last'.op \in {"POST /api/customers", "PATCH /api/customers/[id]",
                          "POST /api/orders", "PATCH /api/orders/[id]",
                          "POST /api/payments"}
         /\ last'.user.role = "VIEWER")
        => /\ last'.status \notin {200, 201}
           /\ customers' = customers
           /\ orders' = orders
           /\ payments' = payments
      ]_vars

\* C9: resolveBranchId gives a non-admin user.branchId (null when unassigned)
\* whatever branch is requested; it gives an ADMIN the requested branch when
\* there is one, else the admin's own branchId, null when there is neither.
C9_ResolveBranchId ==
    last.op = "resolveBranchId" =>
        /\ last.user.role # "ADMIN" => last.result = last.user.branchId
        /\ (last.user.role = "ADMIN" /\ last.requested # NULL)
              => last.result = last.requested
        /\ (last.user.role = "ADMIN" /\ last.requested = NULL)
              => last.result = last.user.branchId

\* C9 witness: STAFF of B1 asking for B2 got B1.
C9_Witness ==
    /\ last.op = "resolveBranchId"
    /\ last.user.role = "STAFF"
    /\ last.user.branchId = "B1"
    /\ last.requested = "B2"
    /\ last.result = "B1"

\* C10: hasAccessToBranch is true for every ADMIN and target; for a
\* non-admin it is true exactly when user.branchId equals the target, so a
\* non-admin without a branch has access to none.
C10_HasAccessToBranch ==
    last.op = "hasAccessToBranch" =>
        /\ last.user.role = "ADMIN" => last.result = TRUE
        /\ last.user.role # "ADMIN"
              => last.result = (last.user.branchId = last.target)
        /\ (last.user.role # "ADMIN" /\ last.user.branchId = NULL)
              => last.result = FALSE

\* C10 witness: a VIEWER without a branch was refused a branch.
C10_Witness ==
    /\ last.op = "hasAccessToBranch"
    /\ last.user.role = "VIEWER"
    /\ last.user.branchId = NULL
    /\ last.target \in Branches
    /\ last.result = FALSE

\* C11: buildBranchFilter gives an ADMIN the empty filter (every branch
\* passes), a non-admin with a branch the filter of exactly that branch, and
\* throws for a non-admin without a branch; GET /api/customers then answers
\* 'User not assigned to a branch' without running a query.
C11_BuildBranchFilter ==
    /\ last.op = "buildBranchFilter" =>
          /\ last.user.role = "ADMIN" =>
                /\ ~last.result.throws
                /\ last.result.branches = Branches \cup {NULL}
          /\ (last.user.role # "ADMIN" /\ last.user.branchId # NULL) =>
                /\ ~last.result.throws
                /\ last.result.branches = {last.user.branchId}
          /\ (last.user.role # "ADMIN" /\ last.user.branchId = NULL) =>
                /\ last.result.throws
                /\ last.result.branches = {}
    /\ (/\ last.op = "GET /api/customers"
        /\ last.user.role # "ADMIN"
        /\ last.user.branchId = NULL) =>
          /\ last.status = 500
          /\ last.error = "User not assigned to a branch"
          /\ last.returned = {}
          /\ last.calls = <<>>

\* C11 witness: GET /api/customers by a STAFF user without a branch failed
\* before its query.
C11_Witness ==
    /\ last.op = "GET /api/customers"
    /\ last.user.role = "STAFF"
    /\ last.user.branchId = NULL
    /\ last.error = "User not assigned to a branch"
    /\ last.calls = <<>>

\* C12: after any run of POST /api/users and PATCH /api/users/[id] requests
\* every stored STAFF or VIEWER has a branch and every stored ADMIN has none,
\* and a rejected request leaves the user table as it was.
C12_UserRoleBranch ==
    /\ [](\A x \in DOMAIN users :
            /\ users[x].role \in {"STAFF", "VIEWER"} => users[x].branchId \in Branches
            /\ users[x].role = "ADMIN" => users[x].branchId = NULL)
    /\ [][ (/\ last = NoRequest
            /\ last'.op \in {"POST /api/users", "PATCH /api/users/[id]"}
            /\ last'.status \notin {200, 201})
           => users' = users ]_vars

\* C12 witness: an update that would have left a STAFF user without a
\* branch was rejected, after another user was made ADMIN.
C12_Witness ==
    /\ last.op = "PATCH /api/users/[id]"
    /\ last.error = "Staff and Viewer users must be assigned to a branch"
    /\ \E x \in DOMAIN users : users[x] # SeedUsers["admin"] /\ users[x].role = "ADMIN"

\* C13: the urgency tier is fixed by the whole number of days from today to
\* the due date: 0 or fewer overdue, 1 warning-1, 2..3 warning-3, 4..5
\* warning-5, 6 or more safe, and exactly one tier in every case.
C13_UrgencyTiers ==
    last.op = "getDueDateUrgency" =>
        LET d == last.dueDate.day - last.now.day
        IN  /\ last.days = d
            /\ last.result \in Urgencies
            /\ last.result = "overdue" <=> d <= 0
            /\ last.result = "warning-1" <=> d = 1
            /\ last.result = "warning-3" <=> d \in 2..3
            /\ last.result = "warning-5" <=> d \in 4..5
            /\ last.result = "safe" <=> d >= 6

\* C13 witness: an order due in exactly 3 days, late in the day, is
\* warning-3.
C13_Witness ==
    /\ last.op = "getDueDateUrgency"
    /\ last.dueDate.day - last.now.day = 3
    /\ last.dueDate.hour < last.now.hour
    /\ last.result = "warning-3"

C15_SafeNeverReminded ==
    last.op \in ReminderOps
        => \A m \in last.sent :
              StartOfDay(orders[m.orderId].dueDate).day - StartOfDay(m.at).day < 6

\* C15 witness: a cron run that sent a reminder for the first order and
\* nothing for the second, which is safe at every reading.
C15_Witness ==
    /\ last.op = "GET /api/notifications/cron"
    /\ last.status = 200
    /\ \A now \in Nows : getDueDateUrgency(orders["o2"].dueDate, now) = "safe"
    /\ \E m \in last.sent : m.orderId = "o1"
    /\ \A m \in last.sent : m.orderId # "o2"

\* C16: generateOrderNumber(lastIssued) in year Y returns T-Y-0001 when
\* lastIssued is absent or does not start with T-Y-, and otherwise T-Y-
\* followed by the numeric suffix of lastIssued plus one, padded with zeros
\* to four digits.
C16_GenerateOrderNumber ==
    last.op = "generateOrderNumber"
        => LET l == last.lastOrderNumber
               r == last.result
           IN  /\ r.year = last.year
               /\ IF l = NoOrderNumber \/ l.year # last.year
                  THEN r.digits = <<0, 0, 0, 1>>
                  ELSE /\ parseInt(r.digits) = parseInt(l.digits) + 1
                       /\ Len(r.digits) >= 4
                       /\ Len(r.digits) > 4 => r.digits[1] # 0

\* C16 witness: the calls of the claim's examples: last year's T-<Y-1>-9999
\* gives T-Y-0001 and this year's T-Y-0042 gives T-Y-0043.
C16_Witness ==
    /\ last.op = "generateOrderNumber"
    /\ last.year = CurrentYear
    /\ \/ /\ last.lastOrderNumber = [year |-> CurrentYear - 1, digits |-> <<9, 9, 9, 9>>]
          /\ last.result = [year |-> CurrentYear, digits |-> <<0, 0, 0, 1>>]
       \/ /\ last.lastOrderNumber = [year |-> CurrentYear, digits |-> <<0, 0, 4, 2>>]
          /\ last.result = [year |-> CurrentYear, digits |-> <<0, 0, 4, 3>>]

\* C17: over orders taken one after another and deleted by the
\* administrator within one year, every number issued is greater, by its
\* numeric value, than every number issued before it (and so differs from
\* all of them), also beyond 9999 and after the highest-numbered order was
\* deleted.
C17_NumbersIncrease ==
    \A i, j \in DOMAIN issued :
        (i < j /\ issued[i].year = issued[j].year)
            => parseInt(issued[i].digits) < parseInt(issued[j].digits)

\* C18: two concurrent POST /api/orders requests never issue the same order
\* number: two requests that have both read the last number hold different
\* new numbers, and no two orders carry the same number.
C18_ConcurrentNumbersDiffer ==
    /\ \A s1, s2 \in Slots :
          (s1 # s2 /\ inflight[s1].pc = "create order"
                   /\ inflight[s2].pc = "create order")
              => inflight[s1].orderNumber # inflight[s2].orderNumber
    /\ \A o1, o2 \in DOMAIN orders :
          o1 # o2 => orders[o1].orderNumber # orders[o2].orderNumber

\* C19: in every reachable state, after any creations and updates of
\* customers and orders by any user, each order's branchId is the branchId
\* of its customer.
C19_OrderInheritsBranch ==
    \A o \in DOMAIN orders :
        /\ orders[o].customerId \in DOMAIN customers
        /\ orders[o].branchId = customers[orders[o].customerId].branchId

\* C19 witness: an ADMIN who sent branchId B1 created an order for a
\* customer of branch B2.
C19_Witness ==
    /\ last.op = "POST /api/orders"
    /\ last.status = 201
    /\ last.user.role = "ADMIN"
    /\ last.req = "B1"
    /\ \E o \in DOMAIN orders \ DOMAIN SeedOrders :
          customers[orders[o].customerId].branchId = "B2"

\* C20: after any sequence of payment recordings and order updates
\* (PATCH /api/orders/[id]), no order has payments that sum to more than
\* its totalAmount: every balance is non-negative.
C20_BalanceNonNegative ==
    \A o \in DOMAIN orders : orders[o].totalAmount - AmountPaid(payments, o) >= 0

\* C21: every payment created, the initial payment of a new order
\* included, has a positive amount that is at most the order's remaining
\* balance at the moment it is created (for an initial payment: at most the
\* order's totalAmount).
C21_PaymentWithinBalance ==
    [][Len(payments') > Len(payments)
          => LET p == payments'[Len(payments')]
             IN  /\ p.amount > 0
                 /\ p.amount <= orders'[p.orderId].totalAmount
                                  - AmountPaid(payments, p.orderId)]_vars

\* C22: a failure of the audit write never propagates: whenever the
\* primary write of a customer, order, payment or user mutation has been
\* made, the operation answers with its success status, whether or not the
\* activity-log row was stored, and the primary write stays.
C22_LogFailureAbsorbed ==
    [][<<customers, orders, payments, users>>' # <<customers, orders, payments, users>>
          => /\ last'.status \in {200, 201}
             /\ last'.error = NULL]_vars

\* C22 witness: a mutation answered with success although its audit entry
\* was not stored.
C22_Witness ==
    /\ last.status \in {200, 201}
    /\ last.audit # {}
    /\ activityLogs = <<>>
    /\ <<customers, orders, payments, users>>
          # <<SeedCustomers, SeedOrders, SeedPayments, SeedUsers>>

\* C23: once a payment is recorded, a failure of the payment confirmation
\* neither undoes nor fails it: the payment is stored, POST /api/payments
\* answers 201 with the payment, and the confirmation is attempted only
\* after the payment was stored.
C23_ConfirmationFailureAbsorbed ==
    (last.op = "POST /api/payments" /\ last.sms # "none")
        => /\ last.status = 201
           /\ last.returned # {}
           /\ \E i \in 1..Len(payments) :
                 /\ payments[i].orderId = last.req.orderId
                 /\ payments[i].amount = ParseFloat(last.req.amount)
           /\ \E i, j \in 1..Len(last.calls) :
                 /\ i < j
                 /\ last.calls[i] = "payment.create"
                 /\ last.calls[j] = "sendPaymentConfirmationSMS"

\* C23 witness: a payment answered 201 although its confirmation failed.
C23_Witness ==
    /\ last.op = "POST /api/payments"
    /\ last.sms = "failed"
    /\ last.status = 201
    /\ Len(payments) > Len(SeedPayments)

\* C24: the range payment report has exactly one bucket for every calendar
\* day from startDate to endDate, empty days included with count 0 and
\* total 0; every payment of the range is in the bucket of its calendar day,
\* so the bucket counts sum to totalCount and the bucket totals to
\* totalAmount.
C24_OneBucketPerDay ==
    (last.op = "GET /api/reports/weekly-payments" /\ last.status = 200)
        => LET inRange == {i \in 1..Len(payments) :
                              /\ DateLeq(last.startDate, payments[i].paymentDate)
                              /\ DateLeq(payments[i].paymentDate, last.endDate)}
               onDay(d) == {i \in inRange : payments[i].paymentDate.day = d}
               amountOf(S) == SumAmounts([k \in 1..Len(payments) |->
                                  IF k \in S THEN payments[k]
                                  ELSE [amount |-> 0]])
           IN  /\ Len(last.byDay) = last.endDate.day - last.startDate.day + 1
               /\ \A k \in 1..Len(last.byDay) :
                     /\ last.byDay[k].date = last.startDate.day + k - 1
                     /\ last.byDay[k].count = Cardinality(onDay(last.byDay[k].date))
                     /\ last.byDay[k].total = amountOf(onDay(last.byDay[k].date))
               /\ \A i \in inRange :
                     \E k \in 1..Len(last.byDay) :
                         last.byDay[k].date = payments[i].paymentDate.day
               /\ last.totalCount = Cardinality(inRange)
               /\ last.totalAmount = amountOf(inRange)
               /\ SumAmounts([k \in 1..Len(last.byDay) |->
                     [amount |-> last.byDay[k].count]]) = last.totalCount
               /\ SumAmounts([k \in 1..Len(last.byDay) |->
                     [amount |-> last.byDay[k].total]]) = last.totalAmount

\* C24 witness: a report over four days with payments on two of them, at
\* different times of day, and two empty buckets.
C24_Witness ==
    /\ last.op = "GET /api/reports/weekly-payments"
    /\ last.status = 200
    /\ Len(last.byDay) = 4
    /\ last.totalCount = 2
    /\ Cardinality({k \in 1..4 : last.byDay[k].count = 0}) = 2
    /\ \E k \in 1..4 : last.byDay[k].count = 1 /\ payments[1].paymentDate.hour = 23

\* C25: every successful create, update or delete of a customer, an order,
\* a payment or a user (a request answered 200 or 201 after its write was
\* issued) attempts exactly one activity-log entry, carrying the acting
\* user, the action and the entity type of the operation.
C25_OneEntryPerMutation ==
    (/\ last.status \in {200, 201}
     /\ \E i \in 1..Len(last.calls) :
           last.calls[i] \in {"customer.create", "customer.update", "customer.delete",
                              "order.create", "order.update", "order.delete",
                              "payment.create", "user.create", "user.update"})
        => /\ Cardinality(last.audit) = 1
           /\ \A e \in last.audit :
                 /\ e.userId = last.user.id
                 /\ e.action = (IF last.op \in {"POST /api/customers", "POST /api/orders",
                                                "POST /api/payments", "POST /api/users"}
                                THEN "CREATE"
                                ELSE IF last.op \in {"PATCH /api/customers/[id]",
                                                     "PATCH /api/orders/[id]",
                                                     "PATCH /api/users/[id]"}
                                THEN "UPDATE" ELSE "DELETE")
                 /\ e.entity = (IF last.op \in {"POST /api/customers",
                                                "PATCH /api/customers/[id]",
                                                "DELETE /api/customers/[id]"}
                                THEN "CUSTOMER"
                                ELSE IF last.op \in {"POST /api/orders",
                                                     "PATCH /api/orders/[id]",
                                                     "DELETE /api/orders/[id]"}
                                THEN "ORDER"
                                ELSE IF last.op = "POST /api/payments"
                                THEN "PAYMENT" ELSE "USER")

\* C26: payments are append-only.  A step leaves every stored payment as it
\* was; it removes payments only when an ADMIN's DELETE of an order or of a
\* customer removed their orders, and then exactly the payments of those
\* orders; a request of a STAFF or VIEWER user never removes a customer, an
\* order or a payment.
C26_PaymentsAppendOnly ==
    [][LET gone == DOMAIN orders \ DOMAIN orders'
           kept == SelectSeq(payments, LAMBDA p : p.orderId \notin gone)
           shrinks == \/ gone # {}
                      \/ DOMAIN customers \ DOMAIN customers' # {}
                      \/ Len(payments') < Len(payments)
       IN  /\ \/ payments' = kept
              \/ gone = {} /\ Len(payments') = Len(payments) + 1
                           /\ SubSeq(payments', 1, Len(payments)) = payments
           /\ shrinks => /\ last'.op \in {"DELETE /api/orders/[id]",
                                          "DELETE /api/customers/[id]"}
                         /\ last'.status = 200
                         /\ last'.user.role = "ADMIN"
                         /\ \A o \in gone :
                               \/ last'.req = o
                               \/ orders[o].customerId = last'.req]_vars

\* C26 witness: an ADMIN deleted the order that had a payment, and the
\* payment went with it.
C26_Witness ==
    /\ last.op = "DELETE /api/orders/[id]"
    /\ last.status = 200
    /\ last.user.role = "ADMIN"
    /\ "o1" \notin DOMAIN orders
    /\ payments = <<>>

\* C27: the view returned by enrichOrder carries the order as it was given,
\* amountPaid is the sum of its payments, balance is totalAmount minus
\* amountPaid, and urgency is the tier of the daysToDue returned with it.
C27_EnrichedViewConsistent ==
    last.op = "enrichOrder"
        => /\ last.result.order = last.order
           /\ last.result.amountPaid = SumAmounts(last.order.payments)
           /\ last.result.balance = last.order.totalAmount - last.result.amountPaid
           /\ last.result.urgency = UrgencyOfDays(last.result.daysToDue)

C30_NoSelfDeactivation ==
    [][/\ \A u \in SessionUsers :
             (u.role = "ADMIN" /\ u.id \in DOMAIN users)
                => /\ \A b \in AllUserPatches :
                         (/\ b.active = "false"
                          /\ last'.op = "PATCH /api/users/[id]"
                          /\ PatchUser(u, u.id, b))
                            => /\ last'.status = 400
                               /\ last'.error = "You cannot deactivate your own account"
                               /\ users' = users /\ activityLogs' = activityLogs
                   /\ (last'.op = "DELETE /api/users/[id]" /\ DeleteUser(u, u.id))
                         => /\ last'.status = 400
                            /\ last'.error = "You cannot delete your own account"
                            /\ users' = users /\ activityLogs' = activityLogs
       /\ \A id \in DOMAIN users :
             (users[id].active /\ last'.status # 0 /\ last'.user.id = id)
                => (id \in DOMAIN users' /\ users'[id].active)
       /\ (last'.op = "DELETE /api/users/[id]" /\ last'.status = 200)
             => /\ DOMAIN users' = DOMAIN users
                /\ last'.req \in DOMAIN users
                /\ last'.req # last'.user.id
                /\ users' = [users EXCEPT ![last'.req].active = FALSE]]_vars

\* C30 witness: the admin's DELETE of their own account was answered 400,
\* after their DELETE of another user had left that user's row in place,
\* inactive.
C30_Witness ==
    /\ last.op = "DELETE /api/users/[id]"
    /\ last.user.id = "admin"
    /\ last.req = "admin"
    /\ last.status = 400
    /\ users["admin"].active
    /\ "staff1" \in DOMAIN users /\ ~users["staff1"].active

====
